---- MODULE Spec2Model ----
(***************************************************************************)
(* A model of the qcrawl crawl core: the in-memory priority queue, the     *)
(* Scheduler (deduplication, direct handoff, pending accounting) and the   *)
(* CrawlEngine worker loop with its downloader middleware chains.          *)
(*                                                                         *)
(* asyncio is single-threaded and cooperative: an action of this model is  *)
(* the code that one task runs between two suspension points.              *)
(***************************************************************************)
EXTENDS Integers, Sequences, FiniteSets, TLC

\* ----------------------------------------------------------------- bounds
MaxReq == 3      \* requests created in one run
NumTasks == 2    \* tasks that consume from the scheduler or the queue
MaxAdds == 1     \* add() / put() calls that are suspended at the same time
MaxQueue == 1    \* maxsize of the bounded queue
MaxExcess == 1   \* task_done() calls beyond the requests handed out
MaxPuts == 5     \* requests put in the queue-level model
NumMw == 2       \* downloader middlewares registered with the engine
MaxCrawl == 2    \* requests created in one crawl of the engine
MaxRetrigger == 2  \* finalization / cleanup calls made after crawl()
MaxDrain == 3    \* requests put in the model of the queue that is closed
MaxHandlers == 2 \* handlers configured in DOWNLOAD_HANDLERS
MaxFetch == 3    \* fetch() calls made on the handler manager

Tasks == 1..NumTasks
\* fingerprints are opaque; no run needs more of them than requests
Fingerprints == 1..MaxReq
\* the priorities that requests are created with (scenario S2 uses 1, 3, 5)
Priorities == {1, 3, 5}

VARIABLES
    \* --- requests created so far; a request is named by its index here
    reqs,
    \* --- MemoryPriorityQueue / RequestQueue
    pq,          \* set of entries <<priority, counter, request>>
    counter,     \* itertools.count(): the next value
    qclosed,     \* MemoryPriorityQueue._closed
    maxsize,     \* asyncio.PriorityQueue.maxsize (0 = unbounded)
    qmode,       \* what put does on a full bounded queue: "block" or "raise"
    getters,     \* number of callers suspended in asyncio.PriorityQueue.get
    \* --- Scheduler
    seen,        \* Scheduler.seen
    waiters,     \* Scheduler._waiters: the futures, by owning task, oldest first
    closed,      \* Scheduler._closed
    pending,     \* Scheduler._pending
    finished,    \* Scheduler._finished.is_set()
    \* --- suspended calls
    adds,        \* add() / put() calls in progress: [req, stage, ctr, by]
    fut,         \* state of the future a task awaits in get()
    fres,        \* its result
    tcancel,     \* Task.cancel() was called on the task and not yet delivered
    \* --- observations
    dispatched,  \* requests handed to a consumer
    scheduled,   \* requests for which request_scheduled was emitted
    enq,         \* requests that were ever stored in the queue
    qfull,       \* requests whose put() raised QueueFull
    done,        \* number of task_done() calls that returned normally
    tdRaised,    \* task_done() raised ValueError at least once
    handed,      \* requests that add() delivered straight to a waiter
    waiting,     \* tasks suspended in Scheduler.get, in the order they began to wait
    qlog,        \* queue-level get() returns: [req, stored], oldest first
    \* --- CrawlEngine
    middlewares,   \* CrawlEngine.middlewares, in registration order
    reversed_mws,  \* CrawlEngine._reversed_mws
    running,       \* CrawlEngine._running
    concurrency,   \* spider.concurrency
    mpc,           \* where crawl() stands
    wpc,           \* where each worker stands
    wreq,          \* the request a worker is processing (0 = none)
    \* --- observations of the engine
    tracing,       \* whether hook calls are recorded
    trace,         \* per worker: the calls made for its current request
    dropped,       \* request_dropped emissions: <<request, exception>>
    retried,       \* RETRY payloads handed to scheduler.add: <<request, new request>>
    unexpected,    \* <<worker, request>>: a hook, the fetch or parse raised an
                   \* exception that is not network-class
    \* --- Crawler
    cpc,                  \* where Crawler.crawl() stands
    pending_middlewares,  \* the kinds of the middlewares given to the Crawler, as registered
    spider_mws,           \* engine._mw_manager.spider
    c_engine,             \* Crawler.engine is not None
    handler_manager,      \* Crawler.handler_manager is not None
    c_scheduler,          \* Crawler.scheduler is not None
    spider_signals,       \* spider.signals is not None
    c_finalized,          \* Crawler._finalized
    crawl_exc,            \* the exception that crawl() is unwinding with
    finish_reason,        \* stats meta "finish_reason"
    life,                 \* the lifecycle calls and emissions made, oldest first
    retriggers,           \* finalization / cleanup calls made after crawl()
    \* --- async iteration over the queue
    it,          \* where the "async for" loop over the queue stands
    remaining,   \* the requests the queue held when the loop began
    yielded,     \* the requests the loop has yielded, oldest first
    \* --- DownloadHandlerManager
    h_configs,   \* _handler_configs: the configured handler names, in dict order
    h_handlers,  \* _handlers: the materialized handlers, in dict order
    h_closed,    \* _closed
    h_todo,      \* close(): the handlers of its snapshot still to be closed
    h_pc,        \* where close() stands
    h_call,      \* per task: the fetch() call it is suspended in
    h_routed,    \* the latest _select_handler call: its inputs and its result
    h_log,       \* handlers created, invoked and closed, oldest first
    h_fetches,   \* number of fetch() calls made
    \* --- CrawlEngine.crawl: the number of workers
    spider_concurrency,  \* spider.concurrency
    rs_concurrency,      \* spider.runtime_settings.concurrency
    n_workers,           \* len(workers)
    \* --- SignalRegistry, for one signal
    sig_handlers,   \* _handlers[signal]: the registrations, in list order
    sig_dead,       \* the handlers that were garbage-collected
    sig_send,       \* send_async in progress, and its sender
    sig_todo,       \* send_async: the collected handlers not yet called
    sig_delivered,  \* the latest call of a handler that send_async made
    \* --- CrawlEngine.crawl: how it ends
    spider_errors,  \* number of spider_error signals that crawl() sent
    crawl_raised,   \* an exception left the try block of crawl()
    \* --- the middlewares that emit request_dropped themselves
    mw_dropped,     \* requests for which a middleware emitted request_dropped
    \* --- async with scheduler
    ctx,            \* where the task that entered the context stands
    \* --- the downloader chains, run by the engine and by MiddlewareManager
    chain_method,   \* the phase: process_request, process_response, process_exception
    chain_plan,     \* what the hook of each middleware returns
    eng_run,        \* what CrawlEngine._run_middleware_chain did
    mgr_run         \* what the MiddlewareManager method did

crawlerVars == <<cpc, pending_middlewares, spider_mws, c_engine, handler_manager,
                 c_scheduler, spider_signals, c_finalized, crawl_exc,
                 finish_reason, life, retriggers>>

iterVars == <<it, remaining, yielded>>

\* a task that is in no fetch() call
NoCall == [name |-> "", stage |-> "none"]

\* _select_handler was not called yet
NotRouted == [use |-> "None", scheme |-> "", name |-> ""]

handlerVars == <<h_configs, h_handlers, h_closed, h_todo, h_pc, h_call, h_routed,
                 h_log, h_fetches>>

workerCountVars == <<spider_concurrency, rs_concurrency, n_workers>>

\* the components that are modelled on their own
signalVars == <<sig_handlers, sig_dead, sig_send, sig_todo, sig_delivered>>

crawlExitVars == <<spider_errors, crawl_raised>>

\* the components that are modelled on their own, and the way crawl() ends
\* what the middlewares emit themselves
emitVars == <<mw_dropped>>

\* the Scheduler used as an async context manager
ctxVars == <<ctx>>

\* the two chain runners side by side
chainVars == <<chain_method, chain_plan, eng_run, mgr_run>>

standaloneVars == <<handlerVars, workerCountVars, signalVars, crawlExitVars, emitVars,
                   ctxVars, chainVars>>

vars == <<reqs, pq, counter, qclosed, maxsize, qmode, getters, seen, waiters,
          closed, pending, finished, adds, fut, fres, tcancel,
          dispatched, scheduled, enq, qfull, done, tdRaised, handed, waiting, qlog,
          middlewares, reversed_mws, running, concurrency, mpc, wpc, wreq,
          tracing, crawlerVars, iterVars, standaloneVars, trace, dropped, retried, unexpected>>

queueVars == <<pq, counter, qclosed, maxsize, qmode, getters>>
schedVars == <<seen, waiters, closed, pending, finished>>
taskVars == <<fut, fres, tcancel>>
obsVars == <<dispatched, scheduled, enq, qfull, done, tdRaised, handed, waiting, qlog>>
engineVars == <<middlewares, reversed_mws, running, concurrency, mpc, wpc, wreq,
                tracing, crawlerVars, iterVars, standaloneVars, trace, dropped, retried, unexpected>>

\* ------------------------------------------------------------ requests
NewRequest(fp, priority) == [fp |-> fp, priority |-> priority]

fingerprint_bytes(r) == reqs[r].fp

\* ------------------------------------------------- MemoryPriorityQueue
\* Python compares the stored tuples lexicographically; counters are unique,
\* so the comparison never reaches the request.
EntryLess(a, b) == a[1] < b[1] \/ (a[1] = b[1] /\ a[2] < b[2])

\* heapq pop: the least entry
PQMin(q) == CHOOSE e \in q : \A o \in q : o = e \/ EntryLess(e, o)

\* a tuple whose tie-break runs against the order of arrival
PQEntryNewestFirst(priority, c, request) == <<priority, 0 - c, request>>

\* the tuple that put() stores
PQEntry(priority, c, request) == <<priority, c, request>>

size == Cardinality(pq)

full == maxsize > 0 /\ size >= maxsize

\* what put() does with a request, decided when it is called
\*   "noop"      the queue is closed (memory.py:49-53)
\*   "stored"    there is room (memory.py:54)
\*   "block"     asyncio.PriorityQueue.put suspends until there is room
\*   "QueueFull" a bounded backend that raises instead of waiting
put_outcome ==
    IF qclosed THEN "noop"
    ELSE IF ~full THEN "stored"
    ELSE IF qmode = "raise" THEN "QueueFull" ELSE "block"

\* RequestQueue.put(request, priority): the queue's part of the call. The
\* counter is drawn when the tuple is built, before put may suspend.
put(r, priority, by) ==
    /\ counter' = IF qclosed THEN counter ELSE counter + 1
    /\ pq' = IF put_outcome = "stored"
             THEN pq \cup {PQEntry(priority, counter, r)} ELSE pq
    /\ enq' = IF put_outcome = "stored" THEN enq \cup {r} ELSE enq
    /\ adds' = IF put_outcome = "block"
               THEN {a \in adds : a.req # r}
                    \cup {[req |-> r, stage |-> "blocked", ctr |-> counter,
                           by |-> by]}
               ELSE {a \in adds : a.req # r}
    /\ qfull' = IF put_outcome = "QueueFull" THEN qfull \cup {r} ELSE qfull

\* asyncio.PriorityQueue.put resumes once a get() has made room
put_wakeup(a) ==
    /\ a \in adds
    /\ a.stage = "blocked"
    /\ \A b \in adds : b.stage = "blocked" => a.ctr <= b.ctr
    /\ ~full
    /\ pq' = pq \cup {PQEntry(reqs[a.req].priority, a.ctr, a.req)}
    /\ enq' = enq \cup {a.req}
    /\ adds' = adds \ {a}
    /\ UNCHANGED <<reqs, counter, qclosed, maxsize, qmode, getters, schedVars,
                   taskVars, dispatched, scheduled, qfull, done, tdRaised, handed,
                   waiting, qlog>>

\* ----------------------------------------------------------- Scheduler
\* index in ws of the newest waiter whose future is not done, 0 if none
LastLive(ws) ==
    IF \E i \in 1..Len(ws) : fut[ws[i]] = "pending"
    THEN CHOOSE i \in 1..Len(ws) :
            /\ fut[ws[i]] = "pending"
            /\ \A j \in (i + 1)..Len(ws) : fut[ws[j]] # "pending"
    ELSE 0

\* index in ws of the oldest waiter whose future is not done, 0 if none
FirstLive(ws) ==
    IF \E i \in 1..Len(ws) : fut[ws[i]] = "pending"
    THEN CHOOSE i \in 1..Len(ws) :
            /\ fut[ws[i]] = "pending"
            /\ \A j \in 1..(i - 1) : fut[ws[j]] # "pending"
    ELSE 0

\* the waiters left by the delivery loop of add(): it pops up to and
\* including the waiter it delivers to, or everything when none is live
AfterDelivery(ws, k) == IF k = 0 THEN << >> ELSE SubSeq(ws, k + 1, Len(ws))

Remove(ws, t) == SelectSeq(ws, LAMBDA x : x # t)

\* an add() that emits request_scheduled before it looks at seen
add_begin_emits_first(fp, priority, by) ==
    /\ reqs' = Append(reqs, NewRequest(fp, priority))
    /\ LET r == Len(reqs) + 1
           k == FirstLive(waiters)
       IN  IF closed
           THEN UNCHANGED <<seen, waiters, pending, finished, fut, fres, adds,
                            dispatched, scheduled, handed>>
           ELSE IF fp \in seen
           THEN /\ scheduled' = scheduled \cup {r}
                /\ UNCHANGED <<seen, waiters, pending, finished, fut, fres, adds,
                               dispatched, handed>>
           ELSE /\ seen' = seen \cup {fp}
                /\ finished' = IF pending = 0 THEN FALSE ELSE finished
                /\ pending' = pending + 1
                /\ waiters' = AfterDelivery(waiters, k)
                /\ scheduled' = scheduled \cup {r}
                /\ IF k > 0
                   THEN /\ fut' = [fut EXCEPT ![waiters[k]] = "result"]
                        /\ fres' = [fres EXCEPT ![waiters[k]] = r]
                        /\ dispatched' = dispatched \cup {r}
                        /\ handed' = handed \cup {r}
                        /\ UNCHANGED adds
                   ELSE /\ adds' = adds \cup {[req |-> r, stage |-> "signal",
                                                ctr |-> 0, by |-> by]}
                        /\ UNCHANGED <<fut, fres, dispatched, handed>>
    /\ UNCHANGED <<queueVars, closed, tcancel, enq, qfull, done, tdRaised,
                   waiting, qlog>>

\* an add() that does not look at the closed flag
add_begin_when_closed(fp, priority, by) ==
    /\ reqs' = Append(reqs, NewRequest(fp, priority))
    /\ LET r == Len(reqs) + 1
           k == FirstLive(waiters)
       IN  IF fp \in seen
           THEN UNCHANGED <<seen, waiters, pending, finished, fut, fres, adds,
                            dispatched, scheduled, handed>>
           ELSE /\ seen' = seen \cup {fp}
                /\ finished' = IF pending = 0 THEN FALSE ELSE finished
                /\ pending' = pending + 1
                /\ waiters' = AfterDelivery(waiters, k)
                /\ scheduled' = scheduled \cup {r}
                /\ IF k > 0
                   THEN /\ fut' = [fut EXCEPT ![waiters[k]] = "result"]
                        /\ fres' = [fres EXCEPT ![waiters[k]] = r]
                        /\ dispatched' = dispatched \cup {r}
                        /\ handed' = handed \cup {r}
                        /\ UNCHANGED adds
                   ELSE /\ adds' = adds \cup {[req |-> r, stage |-> "signal",
                                                ctr |-> 0, by |-> by]}
                        /\ UNCHANGED <<fut, fres, dispatched, handed>>
    /\ UNCHANGED <<queueVars, closed, tcancel, enq, qfull, done, tdRaised,
                   waiting, qlog>>

\* Scheduler.add up to its first suspension (the request_scheduled emission)
add_begin(fp, priority, by) ==
    /\ reqs' = Append(reqs, NewRequest(fp, priority))
    /\ LET r == Len(reqs) + 1
           k == FirstLive(waiters)
       IN  IF closed \/ fp \in seen
           THEN UNCHANGED <<seen, waiters, pending, finished, fut, fres, adds,
                            dispatched, scheduled, handed>>
           ELSE /\ seen' = seen \cup {fp}
                /\ finished' = IF pending = 0 THEN FALSE ELSE finished
                /\ pending' = pending + 1
                /\ waiters' = AfterDelivery(waiters, k)
                /\ scheduled' = scheduled \cup {r}
                /\ IF k > 0
                   THEN /\ fut' = [fut EXCEPT ![waiters[k]] = "result"]
                        /\ fres' = [fres EXCEPT ![waiters[k]] = r]
                        /\ dispatched' = dispatched \cup {r}
                        /\ handed' = handed \cup {r}
                        /\ UNCHANGED adds
                   ELSE /\ adds' = adds \cup {[req |-> r, stage |-> "signal",
                                                ctr |-> 0, by |-> by]}
                        /\ UNCHANGED <<fut, fres, dispatched, handed>>
    /\ UNCHANGED <<queueVars, closed, tcancel, enq, qfull, done, tdRaised,
                   waiting, qlog>>

\* the QueueFull handler of add() (scheduler.py:101-106)
QueueFullSeen(r) == seen \ {fingerprint_bytes(r)}

\* an add() whose QueueFull handler leaves pending as it is
add_put_keeps_pending(a) ==
    /\ a \in adds
    /\ a.stage = "signal"
    /\ put(a.req, reqs[a.req].priority, a.by)
    /\ seen' = IF put_outcome = "QueueFull" THEN QueueFullSeen(a.req) ELSE seen
    /\ UNCHANGED <<reqs, qclosed, maxsize, qmode, getters, waiters, closed,
                   pending, finished, taskVars, dispatched, scheduled, done,
                   tdRaised, handed, waiting, qlog>>

\* Scheduler.add after the emission: queue.put and the QueueFull handler
add_put(a) ==
    /\ a \in adds
    /\ a.stage = "signal"
    /\ put(a.req, reqs[a.req].priority, a.by)
    /\ IF put_outcome = "QueueFull"
       THEN /\ pending' = pending - 1
            /\ finished' = IF pending - 1 = 0 THEN TRUE ELSE finished
            /\ seen' = QueueFullSeen(a.req)
       ELSE UNCHANGED <<seen, pending, finished>>
    /\ UNCHANGED <<reqs, qclosed, maxsize, qmode, getters, waiters, closed,
                   taskVars, dispatched, scheduled, done, tdRaised, handed,
                   waiting, qlog>>

\* Scheduler.get up to its return or its suspension on a new future
get(t) ==
    /\ fut[t] = "none"
    /\ IF closed /\ size = 0
       THEN \* raise asyncio.CancelledError
            UNCHANGED <<pq, waiters, fut, fres, dispatched, waiting>>
       ELSE IF size > 0
       THEN /\ pq' = pq \ {PQMin(pq)}
            /\ dispatched' = dispatched \cup {PQMin(pq)[3]}
            /\ UNCHANGED <<waiters, fut, fres, waiting>>
       ELSE /\ waiters' = Append(waiters, t)
            /\ fut' = [fut EXCEPT ![t] = "pending"]
            /\ fres' = [fres EXCEPT ![t] = 0]
            /\ waiting' = Append(waiting, t)
            /\ UNCHANGED <<pq, dispatched>>
    /\ UNCHANGED <<reqs, counter, qclosed, maxsize, qmode, getters, seen, closed,
                   pending, finished, adds, tcancel, scheduled, enq, qfull, done,
                   tdRaised, handed, qlog>>

\* get() resumes with the result that add() set on its future
get_return(t) ==
    /\ fut[t] = "result"
    /\ ~tcancel[t]
    /\ waiters' = Remove(waiters, t)
    /\ fut' = [fut EXCEPT ![t] = "none"]
    /\ fres' = [fres EXCEPT ![t] = 0]
    /\ waiting' = Remove(waiting, t)
    /\ UNCHANGED <<reqs, queueVars, seen, closed, pending, finished, adds,
                   tcancel, dispatched, scheduled, enq, qfull, done, tdRaised,
                   handed, qlog>>

\* Task.cancel() on a task suspended in get(): the awaited future is
\* cancelled at once when it is not done; the task itself resumes later
cancel_task(t) ==
    /\ fut[t] \in {"pending", "result"}
    /\ ~tcancel[t]
    /\ tcancel' = [tcancel EXCEPT ![t] = TRUE]
    /\ fut' = [fut EXCEPT ![t] = IF fut[t] = "pending" THEN "cancelled" ELSE fut[t]]
    /\ UNCHANGED <<reqs, queueVars, schedVars, adds, fres, obsVars>>

\* get() resumes with CancelledError: its finally block (scheduler.py:129-133)
get_cancelled(t) ==
    /\ fut[t] = "cancelled" \/ (fut[t] = "result" /\ tcancel[t])
    /\ waiters' = Remove(waiters, t)
    /\ fut' = [fut EXCEPT ![t] = "none"]
    /\ fres' = [fres EXCEPT ![t] = 0]
    /\ tcancel' = [tcancel EXCEPT ![t] = FALSE]
    /\ waiting' = Remove(waiting, t)
    /\ UNCHANGED <<reqs, queueVars, seen, closed, pending, finished, adds,
                   dispatched, scheduled, enq, qfull, done, tdRaised, handed, qlog>>

\* a task_done that leaves the finished event as it is
task_done_without_set ==
    IF pending = 0
    THEN /\ tdRaised' = TRUE
         /\ UNCHANGED <<pending, finished, done>>
    ELSE /\ pending' = pending - 1
         /\ done' = done + 1
         /\ UNCHANGED <<tdRaised, finished>>

\* a task_done that never checks for zero
task_done_unchecked ==
    /\ pending' = pending - 1
    /\ finished' = IF pending - 1 = 0 THEN TRUE ELSE finished
    /\ done' = done + 1
    /\ UNCHANGED tdRaised

\* Scheduler.task_done: what it changes
task_done_effect ==
    IF pending = 0
    THEN /\ tdRaised' = TRUE
         /\ UNCHANGED <<pending, finished, done>>
    ELSE /\ pending' = pending - 1
         /\ finished' = IF pending - 1 = 0 THEN TRUE ELSE finished
         /\ done' = done + 1
         /\ UNCHANGED tdRaised

\* Scheduler.task_done
task_done ==
    /\ task_done_effect
    /\ UNCHANGED <<reqs, queueVars, seen, waiters, closed, adds, taskVars,
                   dispatched, scheduled, enq, qfull, handed, waiting, qlog>>

\* a close that marks the scheduler and the queue closed and leaves the
\* waiters as they are
close_keeps_waiters ==
    /\ closed' = TRUE
    /\ qclosed' = TRUE
    /\ UNCHANGED <<reqs, pq, counter, maxsize, qmode, getters, seen, waiters,
                   pending, finished, adds, taskVars, obsVars>>

\* Scheduler.close
close ==
    /\ IF closed
       THEN UNCHANGED <<closed, waiters, fut, qclosed>>
       ELSE /\ closed' = TRUE
            /\ waiters' = << >>
            /\ fut' = [t \in Tasks |->
                         IF (\E i \in 1..Len(waiters) : waiters[i] = t)
                            /\ fut[t] = "pending"
                         THEN "cancelled" ELSE fut[t]]
            /\ qclosed' = TRUE
    /\ UNCHANGED <<reqs, pq, counter, maxsize, qmode, getters, seen, pending,
                   finished, adds, fres, tcancel, obsVars>>

\* fingerprints are opaque: the next request repeats one already used or
\* takes the first unused one
\* requests created in one crawl: on a bounded queue maxsize more, so that
\* the queue can be full while a worker holds a request
CrawlLimit == IF maxsize > 0 THEN MaxCrawl + maxsize ELSE MaxCrawl

UsedFingerprints == {reqs[i].fp : i \in 1..Len(reqs)}

NextFingerprints == {f \in Fingerprints : f <= Cardinality(UsedFingerprints) + 1}

\* --------------------------------------------------------- CrawlEngine
\* what a downloader middleware hook can do when it is called
HookResults ==
    {"CONTINUE", "KEEP", "RETRY", "RETRY_invalid", "DROP", "raise_network", "raise_other"}

Reverse(q) == [i \in 1..Len(q) |-> q[Len(q) + 1 - i]]

\* the chains in the order in which they were registered, both directions
RegistrationOrder(q) == q

\* list(reversed(self.middlewares))
ReversedMws(q) == Reverse(q)

\* CrawlEngine.add_middleware
add_middleware ==
    /\ ~running
    /\ middlewares' = Append(middlewares, Len(middlewares) + 1)
    /\ reversed_mws' = ReversedMws(middlewares')

\* a recorded call: hook m of middleware mw (0 for fetch and parse) for
\* request req, the payload it was given and what it did
Call(r, m, mw, arg, out) == [req |-> r, m |-> m, mw |-> mw, arg |-> arg, out |-> out]

\* the actions on which _run_middleware_chain stops, RETRY apart
ShortCircuitsRetryOnly == {"RETRY", "RETRY_invalid"}

\* the actions on which _run_middleware_chain stops
ShortCircuits == {"RETRY", "RETRY_invalid", "DROP"}

\* the exception a raising outcome stands for
ExcOf(out) ==
    CASE out = "raise_network" -> "network"
      [] out = "raise_other" -> "other"
      [] out = "cancelled" -> "cancelled"

\* CrawlEngine._run_middleware_chain for request r: the hooks of `chain` are
\* called in turn with the current payload, and each hook does one of the
\* things in `outs`. The value is the set of results the run can have, each
\* [action, exc, calls]: the MiddlewareResult action, or "raise" with the
\* exception, and the hook calls that were made.
RECURSIVE _run_middleware_chain(_, _, _, _, _, _)
_run_middleware_chain(method_name, r, chain, current_payload, outs, calls) ==
    IF chain = << >>
    THEN {[action |-> IF current_payload = "page" THEN "KEEP" ELSE "CONTINUE",
           exc |-> "None", calls |-> calls]}
    ELSE IF current_payload # "None" /\ method_name = "process_request"
    THEN \* process_request(request, spider) is given three arguments
         {[action |-> "raise", exc |-> "TypeError", calls |-> calls]}
    ELSE UNION {
           LET made == IF tracing
                       THEN Append(calls, Call(r, method_name, Head(chain),
                                               current_payload, out))
                       ELSE calls
           IN  IF out \in {"raise_network", "raise_other", "cancelled"}
               THEN {[action |-> "raise", exc |-> ExcOf(out), calls |-> made]}
               ELSE IF out \in ShortCircuits
               THEN {[action |-> out, exc |-> "None", calls |-> made]}
               ELSE \* result.payload replaces the payload when it is not None
                    _run_middleware_chain(method_name, r, Tail(chain),
                        IF out = "KEEP" THEN "page" ELSE current_payload,
                        outs, made)
           : out \in outs}

\* what the hooks can do in a chain run of worker w: a cancellation that is
\* pending is delivered in one of the hooks, and a RETRY needs a new request
HookOutcomes(w) ==
    (IF Len(reqs) < CrawlLimit THEN HookResults ELSE HookResults \ {"RETRY"})
    \cup (IF tcancel[w] THEN {"cancelled"} ELSE {})

\* the outcomes a chain run of worker w can have: a cancellation that is
\* pending is delivered in one of the hooks, if there are any
ChainRuns(method_name, w, chain, payload) ==
    {res \in _run_middleware_chain(method_name, wreq[w], chain, payload,
                                    HookOutcomes(w), << >>) :
        tcancel[w] /\ chain # << >> => res.action = "raise" /\ res.exc = "cancelled"}

\* the calls are recorded with the exception that was being handled
Record(w, calls, exc) ==
    IF tracing
    THEN [trace EXCEPT ![w] = @ \o [i \in 1..Len(calls) |->
                                       [req |-> calls[i].req, m |-> calls[i].m,
                                        mw |-> calls[i].mw, arg |-> calls[i].arg,
                                        out |-> calls[i].out, exc |-> exc]]]
    ELSE trace

\* ConcurrencyMiddleware: what each of its hooks returns. process_request
\* awaits the semaphore of the domain, where a cancellation can reach it, and
\* returns CONTINUE; process_response returns keep(response) and
\* process_exception returns CONTINUE, neither of them awaits anything.
ConcurrencyResults(m) ==
    CASE m = "process_request" -> {"CONTINUE", "cancelled"}
      [] m = "process_response" -> {"KEEP"}
      [] m = "process_exception" -> {"CONTINUE"}

\* the call acquired a slot: slot.acquire() returned in process_request
SlotAcquired(call) == call.m = "process_request" /\ call.out = "CONTINUE"

\* the call released the slot: process_response and process_exception pop
\* the key from request.meta and release the slot of that domain
SlotReleased(call) == call.m \in {"process_response", "process_exception"}

\* every exception counts as network-class
is_network_always(exc) == TRUE

\* _handle_exception: isinstance(exc, (asyncio.TimeoutError, aiohttp.ClientError))
is_network(exc) == exc = "network"

\* everything outside the engine
outside == <<reqs, queueVars, schedVars, adds, taskVars, obsVars>>

\* the finally clause of the worker loop, and the loop going round
worker_finally(w, to) ==
    /\ task_done_effect
    /\ wpc' = [wpc EXCEPT ![w] = to]
    /\ wreq' = [wreq EXCEPT ![w] = 0]
    /\ UNCHANGED <<queueVars, seen, waiters, closed, fut, fres, dispatched,
                   scheduled, enq, qfull, handed, waiting, qlog>>

\* request_dropped(request, exception) is emitted and the worker ends
drop_request_and_stop(w, exc) ==
    /\ dropped' = dropped \cup {<<wreq[w], exc>>}
    /\ worker_finally(w, "crashed")
    /\ UNCHANGED <<reqs, adds, tcancel, retried>>

\* request_dropped(request, exception) is emitted, then the finally clause
drop_request(w, exc) ==
    /\ dropped' = dropped \cup {<<wreq[w], exc>>}
    /\ worker_finally(w, "idle")
    /\ UNCHANGED <<reqs, adds, tcancel, retried>>

\* the fingerprints a RETRY payload can have: that of the request it copies,
\* or one that was not used before
RetryFingerprints(r) ==
    {reqs[r].fp} \cup {f \in NextFingerprints : f \notin UsedFingerprints}

\* _handle_retry_or_drop with a RETRY whose payload is a Request: scheduler.add
retry_request(w, to) ==
    /\ \E fp \in RetryFingerprints(wreq[w]) : add_begin(fp, reqs[wreq[w]].priority, w)
    /\ retried' = retried \cup {<<wreq[w], Len(reqs) + 1>>}
    /\ wpc' = [wpc EXCEPT ![w] = to]
    /\ UNCHANGED <<wreq, dropped>>

\* the observation of an exception that is not network-class
Note(w, exc) == IF exc = "other" THEN unexpected \cup {<<w, wreq[w]>>} ELSE unexpected

\* _worker, except Exception: _handle_exception up to its first await. An
\* exception that is not network-class is dropped at once; for a network-class
\* one the exception chain is about to run.
raised(w, exc) ==
    IF is_network(exc)
    THEN /\ wpc' = [wpc EXCEPT ![w] = "exception"]
         /\ UNCHANGED <<outside, wreq, dropped, retried>>
    ELSE drop_request(w, exc)

\* what _process_request and the worker's except clauses do with the result
\* of the request chain or of the response chain
after_chain(w, res, onward) ==
    CASE res.action \in {"CONTINUE", "KEEP"} ->
            /\ wpc' = [wpc EXCEPT ![w] = onward]
            /\ UNCHANGED <<outside, wreq, dropped, retried>>
      [] res.action = "RETRY" -> retry_request(w, "retry_add")
      [] res.action = "RETRY_invalid" -> raised(w, "TypeError")
      [] res.action = "DROP" -> drop_request(w, "None")
      [] res.action = "raise" /\ res.exc = "cancelled" ->
            /\ wpc' = [wpc EXCEPT ![w] = "cancelling"]
            /\ tcancel' = [tcancel EXCEPT ![w] = FALSE]
            /\ UNCHANGED <<reqs, queueVars, schedVars, adds, fut, fres, obsVars,
                           wreq, dropped, retried>>
      [] res.action = "raise" /\ res.exc # "cancelled" -> raised(w, res.exc)

engineConfig == <<middlewares, reversed_mws, running, concurrency, mpc, tracing, crawlerVars, iterVars, standaloneVars>>

NewTrace(w) == [trace EXCEPT ![w] = << >>]

\* a worker is in scheduler.add while a call made by it is in progress
InAdd(by) == \E a \in adds : a.by = by

\* workers at the top of the loop are interchangeable: the least of them goes
LeastIdle == CHOOSE t \in Tasks : wpc[t] = "idle" /\ \A u \in Tasks : wpc[u] = "idle" => t <= u

\* _worker: request = await self.scheduler.get()
worker_get(w) ==
    /\ wpc[w] = "idle"
    /\ w = LeastIdle
    /\ IF tcancel[w]
       THEN \* the pending cancellation is raised at the await: break
            /\ wpc' = [wpc EXCEPT ![w] = "stopped"]
            /\ tcancel' = [tcancel EXCEPT ![w] = FALSE]
            /\ UNCHANGED <<reqs, queueVars, schedVars, adds, fut, fres, obsVars,
                           wreq, trace>>
       ELSE /\ get(w)
            /\ IF closed /\ size = 0
               THEN wpc' = [wpc EXCEPT ![w] = "stopped"] /\ UNCHANGED <<wreq, trace>>
               ELSE IF size > 0
               THEN /\ wpc' = [wpc EXCEPT ![w] = "request"]
                    /\ wreq' = [wreq EXCEPT ![w] = PQMin(pq)[3]]
                    /\ trace' = NewTrace(w)
               ELSE wpc' = [wpc EXCEPT ![w] = "get"] /\ UNCHANGED <<wreq, trace>>
    /\ UNCHANGED <<engineConfig, dropped, retried, unexpected>>

\* get() returns the request that add() handed over
worker_get_return(w) ==
    /\ wpc[w] = "get"
    /\ get_return(w)
    /\ wpc' = [wpc EXCEPT ![w] = "request"]
    /\ wreq' = [wreq EXCEPT ![w] = fres[w]]
    /\ trace' = NewTrace(w)
    /\ UNCHANGED <<engineConfig, dropped, retried, unexpected>>

\* get() raises CancelledError: break
worker_get_cancelled(w) ==
    /\ wpc[w] = "get"
    /\ get_cancelled(w)
    /\ wpc' = [wpc EXCEPT ![w] = "stopped"]
    /\ UNCHANGED <<engineConfig, wreq, trace, dropped, retried, unexpected>>

\* _process_request: the request phase
request_phase(w) ==
    /\ wpc[w] = "request"
    /\ \E res \in ChainRuns("process_request", w, middlewares, "None") :
          /\ trace' = Record(w, res.calls, "None")
          /\ unexpected' = Note(w, res.exc)
          /\ after_chain(w, res, IF res.action = "KEEP" THEN "parse" ELSE "fetch")
    /\ UNCHANGED engineConfig

\* a CancelledError reaches the worker's except clause
caught_cancelled(w, call) ==
    /\ wpc' = [wpc EXCEPT ![w] = "cancelling"]
    /\ tcancel' = [tcancel EXCEPT ![w] = FALSE]
    /\ trace' = Record(w, call, "None")
    /\ UNCHANGED <<reqs, queueVars, schedVars, fut, fres, obsVars, wreq, dropped,
                   retried>>

\* _process_request: handler_manager.fetch
fetch(w) ==
    /\ wpc[w] = "fetch"
    /\ IF tcancel[w]
       THEN /\ caught_cancelled(w, <<Call(wreq[w], "fetch", 0, "None", "cancelled")>>)
            /\ UNCHANGED <<adds, unexpected>>
       ELSE \E out \in {"page", "raise_network", "raise_other"} :
              /\ trace' = Record(w, <<Call(wreq[w], "fetch", 0, "None", out)>>, "None")
              /\ unexpected' = Note(w, IF out = "raise_other" THEN "other" ELSE "None")
              /\ CASE out = "page" ->
                        /\ wpc' = [wpc EXCEPT ![w] = "response"]
                        /\ UNCHANGED <<outside, wreq, dropped, retried>>
                   [] out \in {"raise_network", "raise_other"} -> raised(w, ExcOf(out))
    /\ UNCHANGED engineConfig

\* _process_request: the response phase
response_phase(w) ==
    /\ wpc[w] = "response"
    /\ \E res \in ChainRuns("process_response", w, reversed_mws, "page") :
          /\ trace' = Record(w, res.calls, "None")
          /\ unexpected' = Note(w, res.exc)
          /\ after_chain(w, res, "parse")
    /\ UNCHANGED engineConfig

\* _process_parse_results: one step of the spider's parse generator
parse(w) ==
    /\ wpc[w] = "parse"
    /\ IF tcancel[w]
       THEN /\ caught_cancelled(w, <<Call(wreq[w], "parse", 0, "page", "cancelled")>>)
            /\ UNCHANGED <<adds, unexpected>>
       ELSE \E out \in {"yield", "return", "raise_network", "raise_other"} :
              /\ trace' = Record(w, <<Call(wreq[w], "parse", 0, "page", out)>>, "None")
              /\ unexpected' = Note(w, IF out = "raise_other" THEN "other" ELSE "None")
              /\ CASE out = "yield" ->
                        /\ Len(reqs) < CrawlLimit
                        /\ \E fp \in NextFingerprints : add_begin(fp, 1, w)
                        /\ wpc' = [wpc EXCEPT ![w] = "parse_add"]
                        /\ UNCHANGED <<wreq, dropped, retried>>
                   [] out = "return" ->
                        /\ worker_finally(w, "idle")
                        /\ UNCHANGED <<reqs, adds, tcancel, dropped, retried>>
                   [] out \in {"raise_network", "raise_other"} -> raised(w, ExcOf(out))
    /\ UNCHANGED engineConfig

\* await self.scheduler.add(...) returns to the worker
add_returned(w) ==
    /\ wpc[w] \in {"parse_add", "retry_add", "exc_retry_add"}
    /\ ~tcancel[w]
    /\ ~InAdd(w)
    /\ IF wpc[w] = "parse_add"
       THEN /\ wpc' = [wpc EXCEPT ![w] = "parse"]
            /\ UNCHANGED <<outside, wreq>>
       ELSE /\ worker_finally(w, "idle")
            /\ UNCHANGED <<reqs, adds, tcancel>>
    /\ UNCHANGED <<engineConfig, trace, dropped, retried, unexpected>>

\* the worker is cancelled while it is in scheduler.add
add_cancelled(w) ==
    /\ wpc[w] \in {"parse_add", "retry_add", "exc_retry_add"}
    /\ tcancel[w]
    /\ adds' = {a \in adds : a.by # w}
    /\ IF wpc[w] = "exc_retry_add"
       THEN \* inside the except clause: the error leaves the worker
            /\ worker_finally(w, "stopped")
            /\ tcancel' = [tcancel EXCEPT ![w] = FALSE]
            /\ UNCHANGED <<reqs, trace>>
       ELSE caught_cancelled(w, << >>)
    /\ UNCHANGED <<engineConfig, dropped, retried, unexpected>>

\* _handle_exception for a network-class exception: the exception chain
handle_exception(w) ==
    /\ wpc[w] = "exception"
    /\ \E res \in ChainRuns("process_exception", w, reversed_mws, "network") :
          /\ trace' = Record(w, res.calls, "network")
          /\ unexpected' = Note(w, res.exc)
          /\ CASE res.action = "raise" /\ res.exc = "cancelled" ->
                    \* raised inside the except clause: it leaves the worker
                    /\ worker_finally(w, "stopped")
                    /\ tcancel' = [tcancel EXCEPT ![w] = FALSE]
                    /\ UNCHANGED <<reqs, adds, dropped, retried>>
               [] res.action = "raise" /\ res.exc # "cancelled" ->
                    drop_request(w, "network")
               [] res.action = "RETRY" -> retry_request(w, "exc_retry_add")
               [] res.action = "RETRY_invalid" ->
                    \* TypeError("Retry payload must be Request") leaves the worker
                    /\ worker_finally(w, "crashed")
                    /\ UNCHANGED <<reqs, adds, tcancel, dropped, retried>>
               [] res.action = "DROP" -> drop_request(w, "None")
               [] res.action \in {"CONTINUE", "KEEP"} -> drop_request(w, "network")
    /\ UNCHANGED engineConfig

\* _worker, except CancelledError: the exception chain is run with the
\* CancelledError, whatever it returns or raises is dropped, then break
cancel_chain(w) ==
    /\ wpc[w] = "cancelling"
    /\ \E res \in ChainRuns("process_exception", w, reversed_mws, "cancelled") :
          /\ trace' = Record(w, res.calls, "cancelled")
          /\ unexpected' = Note(w, res.exc)
    /\ worker_finally(w, "stopped")
    /\ UNCHANGED <<reqs, adds, tcancel, engineConfig, dropped, retried>>

Finished(t) == wpc[t] \in {"unspawned", "stopped", "crashed"}

\* crawl(): self._running = True, then _schedule_start_requests begins
crawl_start ==
    /\ mpc = "new"
    /\ running' = TRUE
    /\ mpc' = "start"
    /\ UNCHANGED <<outside, middlewares, reversed_mws, concurrency, wpc, wreq,
                   tracing, crawlerVars, iterVars, standaloneVars, trace, dropped, retried, unexpected>>

\* _schedule_start_requests: the spider yields a start request
start_request ==
    /\ mpc = "start"
    /\ ~InAdd(0)
    /\ Len(reqs) < CrawlLimit
    /\ \E fp \in NextFingerprints : add_begin(fp, 1, 0)
    /\ UNCHANGED engineVars

\* crawl(): the start requests are exhausted and the workers are created
spawn_workers ==
    /\ mpc = "start"
    /\ ~InAdd(0)
    /\ wpc' = [t \in Tasks |-> IF t <= concurrency THEN "idle" ELSE wpc[t]]
    /\ mpc' = "join"
    /\ UNCHANGED <<outside, middlewares, reversed_mws, running, concurrency, wreq,
                   tracing, crawlerVars, iterVars, standaloneVars, trace, dropped, retried, unexpected>>

\* a finally block that does not close the scheduler
crawl_finally_leaves_open ==
    /\ running' = FALSE
    /\ tcancel' = [t \in Tasks |-> wpc[t] \notin {"unspawned", "stopped", "crashed"}]
    /\ mpc' = "gather"
    /\ UNCHANGED <<reqs, pq, counter, qclosed, maxsize, qmode, getters, seen, pending,
                   closed, waiters, fut,
                   finished, adds, fres, obsVars, middlewares, reversed_mws,
                   concurrency, wpc, wreq, tracing, crawlerVars, iterVars, standaloneVars, trace, dropped, retried,
                   unexpected>>

\* crawl(), finally: self._running = False; await self.scheduler.close();
\* for w in workers: w.cancel(). The queue's close() does not suspend, so the
\* block runs in one piece up to gather(): the scheduler and the queue are
\* closed, every future awaited in get() is cancelled, and every worker that
\* has not ended has a cancellation pending.
crawl_finally ==
    /\ running' = FALSE
    /\ closed' = TRUE
    /\ qclosed' = TRUE
    /\ waiters' = << >>
    /\ fut' = [t \in Tasks |-> IF fut[t] = "pending" THEN "cancelled" ELSE fut[t]]
    /\ tcancel' = [t \in Tasks |-> ~Finished(t)]
    /\ mpc' = "gather"
    /\ UNCHANGED <<reqs, pq, counter, maxsize, qmode, getters, seen, pending,
                   finished, adds, fres, obsVars, middlewares, reversed_mws,
                   concurrency, wpc, wreq, tracing, crawlerVars, iterVars, standaloneVars, trace, dropped, retried,
                   unexpected>>

\* a join() that returns whether or not the finished event is set
join_return_without_wait ==
    /\ mpc = "join"
    /\ crawl_finally

\* crawl(): await self.scheduler.join() returns, and the finally block runs
join_return ==
    /\ mpc = "join"
    /\ finished
    /\ crawl_finally

\* the task that runs crawl() is cancelled while it waits in join(), and the
\* finally block runs
crawl_cancelled ==
    /\ mpc = "join"
    /\ crawl_finally

\* crawl(), finally: await asyncio.gather(*workers, return_exceptions=True)
gather_return ==
    /\ mpc = "gather"
    /\ \A t \in Tasks : Finished(t)
    /\ mpc' = "returned"
    /\ UNCHANGED <<outside, middlewares, reversed_mws, running, concurrency, wpc,
                   wreq, tracing, crawlerVars, iterVars, standaloneVars, trace, dropped, retried, unexpected>>

\* ------------------------------------------------ the scheduler-level model
\* tasks that are not in a call are interchangeable: the least of them calls
IdleTask ==
    IF \E t \in Tasks : fut[t] = "none"
    THEN CHOOSE t \in Tasks : fut[t] = "none" /\ \A u \in Tasks : fut[u] = "none" => t <= u
    ELSE 0

QueueConfigs == {<<0, "block">>, <<MaxQueue, "block">>, <<MaxQueue, "raise">>}

\* no send_async call is in progress
NotSending == [on |-> FALSE, sender |-> 0]

\* send_async called no handler yet
NoDelivery == [fn |-> 0, sender_filter |-> 0, sender |-> 0, live |-> TRUE]

\* a Python value, as far as crawl() tells values apart: its type and, for a
\* number, its value
PyNone == [type |-> "NoneType", val |-> 0]

\* neither the spider nor its settings name a concurrency
\* no chain is run side by side
NoChainGiven ==
    /\ chain_method = ""
    /\ chain_plan = << >>

\* a chain runner that was not called
NotRun == [action |-> "none", exc |-> "None", calls |-> << >>]

NoConcurrencyGiven ==
    /\ spider_concurrency = PyNone
    /\ rs_concurrency = PyNone

\* everything but the queue's configuration and the registered middlewares
EngineState ==
    /\ reqs = << >>
    /\ pq = {}
    /\ counter = 0
    /\ qclosed = FALSE
    /\ getters = 0
    /\ seen = {}
    /\ waiters = << >>
    /\ closed = FALSE
    /\ pending = 0
    /\ finished = TRUE
    /\ adds = {}
    /\ fut = [t \in Tasks |-> "none"]
    /\ fres = [t \in Tasks |-> 0]
    /\ tcancel = [t \in Tasks |-> FALSE]
    /\ dispatched = {}
    /\ scheduled = {}
    /\ enq = {}
    /\ qfull = {}
    /\ done = 0
    /\ tdRaised = FALSE
    /\ handed = {}
    /\ waiting = << >>
    /\ qlog = << >>
    /\ running = FALSE
    /\ mpc = "new"
    /\ wpc = [t \in Tasks |-> "unspawned"]
    /\ wreq = [t \in Tasks |-> 0]
    /\ trace = [t \in Tasks |-> << >>]
    /\ dropped = {}
    /\ retried = {}
    /\ unexpected = {}
    /\ cpc = "new"
    /\ pending_middlewares = << >>
    /\ spider_mws = << >>
    /\ c_engine = FALSE
    /\ handler_manager = FALSE
    /\ c_scheduler = FALSE
    /\ spider_signals = FALSE
    /\ c_finalized = FALSE
    /\ crawl_exc = "None"
    /\ finish_reason = "None"
    /\ life = << >>
    /\ retriggers = 0
    /\ it = "none"
    /\ remaining = {}
    /\ yielded = << >>
    /\ h_handlers = << >>
    /\ h_closed = FALSE
    /\ h_todo = << >>
    /\ h_pc = "open"
    /\ h_call = [t \in Tasks |-> NoCall]
    /\ h_routed = NotRouted
    /\ h_log = << >>
    /\ h_fetches = 0
    /\ n_workers = 0
    /\ sig_dead = {}
    /\ sig_send = NotSending
    /\ sig_todo = << >>
    /\ sig_delivered = NoDelivery
    /\ spider_errors = 0
    /\ crawl_raised = FALSE
    /\ mw_dropped = {}
    /\ ctx = "entered"
    /\ eng_run = NotRun
    /\ mgr_run = NotRun

InitCommon ==
    /\ EngineState
    /\ middlewares = << >>
    /\ reversed_mws = << >>
    /\ h_configs = << >>
    /\ NoConcurrencyGiven
    /\ NoChainGiven
    /\ sig_handlers = << >>

\* a Scheduler used by callers of its own, without an engine
Init ==
    /\ InitCommon
    /\ \E c \in QueueConfigs : maxsize = c[1] /\ qmode = c[2]
    /\ concurrency = 0
    /\ tracing = FALSE

\* a caller creates a request and calls add() with it
Add ==
    /\ Len(reqs) < MaxReq
    /\ Cardinality(adds) < MaxAdds
    /\ \E fp \in NextFingerprints : add_begin(fp, 1, 0)
    /\ UNCHANGED engineVars

AddPut == \E a \in adds : add_put(a) /\ UNCHANGED engineVars

PutWakeup == \E a \in adds : put_wakeup(a) /\ UNCHANGED engineVars

\* a consumer calls get()
Get == IdleTask \in Tasks /\ get(IdleTask) /\ UNCHANGED engineVars

GetReturn == \E t \in Tasks : get_return(t) /\ UNCHANGED engineVars

CancelTask == \E t \in Tasks : cancel_task(t) /\ UNCHANGED engineVars

GetCancelled == \E t \in Tasks : get_cancelled(t) /\ UNCHANGED engineVars

\* a caller calls task_done(), at most MaxExcess times more often than
\* requests were handed out
TaskDone ==
    /\ done < Cardinality(dispatched) + MaxExcess
    /\ task_done
    /\ UNCHANGED engineVars

Close == ~closed /\ close /\ UNCHANGED engineVars

Next ==
    \/ Add
    \/ AddPut
    \/ PutWakeup
    \/ Get
    \/ GetReturn
    \/ CancelTask
    \/ GetCancelled
    \/ TaskDone
    \/ Close

Spec == Init /\ [][Next]_vars

\* the scheduler without task_done(): producers, consumers, cancellation, close
HandoffNext ==
    \/ Add
    \/ AddPut
    \/ PutWakeup
    \/ Get
    \/ GetReturn
    \/ CancelTask
    \/ GetCancelled
    \/ Close

HandoffSpec == Init /\ [][HandoffNext]_vars

\* the scheduler's accounting: add, get and task_done in any order, and close;
\* no consumer is cancelled from outside
AccountingNext ==
    \/ Add
    \/ AddPut
    \/ PutWakeup
    \/ Get
    \/ GetReturn
    \/ GetCancelled
    \/ TaskDone
    \/ Close

AccountingSpec == Init /\ [][AccountingNext]_vars

\* ---------------------------------------------- the engine-level models
AddMiddleware ==
    /\ mpc = "new"
    /\ Len(middlewares) < NumMw
    /\ add_middleware
    /\ UNCHANGED <<outside, running, concurrency, mpc, wpc, wreq, tracing, crawlerVars, iterVars, standaloneVars, trace,
                   dropped, retried, unexpected>>

\* an engine on a Scheduler with the default, unbounded MemoryPriorityQueue
EngineInit(c, t) ==
    /\ InitCommon
    /\ maxsize = 0
    /\ qmode = "block"
    /\ concurrency = c
    /\ tracing = t

\* one worker, every hook call recorded
PipelineInit == EngineInit(1, TRUE)

PipelineNext ==
    \/ AddMiddleware
    \/ crawl_start
    \/ start_request
    \/ AddPut
    \/ spawn_workers
    \/ join_return
    \/ crawl_cancelled
    \/ gather_return
    \/ \E w \in Tasks : worker_get(w)
    \/ \E w \in Tasks : worker_get_cancelled(w)
    \/ \E w \in Tasks : request_phase(w)
    \/ \E w \in Tasks : fetch(w)
    \/ \E w \in Tasks : response_phase(w)
    \/ \E w \in Tasks : parse(w)
    \/ \E w \in Tasks : add_returned(w)
    \/ \E w \in Tasks : add_cancelled(w)
    \/ \E w \in Tasks : handle_exception(w)
    \/ \E w \in Tasks : cancel_chain(w)

PipelineSpec == PipelineInit /\ [][PipelineNext]_vars

\* several workers; the task that runs crawl() is not cancelled, so no
\* worker is cancelled while it processes a request
CrawlInit == \E c \in Tasks : EngineInit(c, FALSE)

CrawlNext ==
    \/ AddMiddleware
    \/ crawl_start
    \/ start_request
    \/ AddPut
    \/ spawn_workers
    \/ join_return
    \/ gather_return
    \/ \E w \in Tasks : worker_get(w)
    \/ \E w \in Tasks : worker_get_return(w)
    \/ \E w \in Tasks : worker_get_cancelled(w)
    \/ \E w \in Tasks : request_phase(w)
    \/ \E w \in Tasks : fetch(w)
    \/ \E w \in Tasks : response_phase(w)
    \/ \E w \in Tasks : parse(w)
    \/ \E w \in Tasks : add_returned(w)
    \/ \E w \in Tasks : handle_exception(w)

CrawlSpec == CrawlInit /\ [][CrawlNext]_vars

\* NumTasks workers and NumMw middlewares registered before crawl() is called;
\* the task that runs crawl() can be cancelled while it waits in join(), and
\* then workers are cancelled wherever they are
ShutdownInit ==
    /\ EngineState
    /\ h_configs = << >>
    /\ NoConcurrencyGiven
    /\ NoChainGiven
    /\ sig_handlers = << >>
    /\ middlewares = [i \in 1..NumMw |-> i]
    /\ reversed_mws = ReversedMws(middlewares)
    /\ maxsize = 0
    /\ qmode = "block"
    /\ concurrency = NumTasks
    /\ tracing = FALSE

ShutdownNext ==
    \/ crawl_start
    \/ start_request
    \/ AddPut
    \/ spawn_workers
    \/ join_return
    \/ gather_return
    \/ \E w \in Tasks : worker_get(w)
    \/ \E w \in Tasks : worker_get_return(w)
    \/ \E w \in Tasks : worker_get_cancelled(w)
    \/ \E w \in Tasks : request_phase(w)
    \/ \E w \in Tasks : fetch(w)
    \/ \E w \in Tasks : response_phase(w)
    \/ \E w \in Tasks : parse(w)
    \/ \E w \in Tasks : add_returned(w)
    \/ \E w \in Tasks : handle_exception(w)
    \/ crawl_cancelled
    \/ \E w \in Tasks : add_cancelled(w)
    \/ \E w \in Tasks : cancel_chain(w)

ShutdownSpec == ShutdownInit /\ [][ShutdownNext]_vars

\* ------------------------------------------------------------- Crawler
\* a lifecycle call or emission; mw is the place of the middleware in the
\* order of registration (0 when none is meant)
Event(e, mw, reason) == [e |-> e, mw |-> mw, reason |-> reason]

\* the kinds of middleware that can be registered
Kinds == {"downloader", "spider"}

\* the registered middlewares of kind k, in registration order
OfKind(k) ==
    SelectSeq([i \in 1..Len(pending_middlewares) |-> i],
              LAMBDA i : pending_middlewares[i] = k)

\* the variables of the engine's run, which the Crawler's own steps leave alone
engineRun == <<running, concurrency, mpc, wpc, wreq, tracing, trace, dropped,
               retried, unexpected, iterVars, standaloneVars>>

\* Crawler.add_middleware
crawler_add_middleware(k) ==
    /\ ~c_engine
    /\ pending_middlewares' = Append(pending_middlewares, k)

\* Crawler.crawl up to its first await: the handler manager, the scheduler and
\* the engine are created, spider.signals is set, the pending middlewares are
\* installed in their chains and the stats handlers are connected
crawler_setup ==
    /\ cpc = "new"
    /\ handler_manager' = TRUE
    /\ c_scheduler' = TRUE
    /\ c_engine' = TRUE
    /\ spider_signals' = TRUE
    /\ middlewares' = OfKind("downloader")
    /\ reversed_mws' = ReversedMws(middlewares')
    /\ spider_mws' = OfKind("spider")
    /\ cpc' = "open_middlewares"
    /\ UNCHANGED <<pending_middlewares, c_finalized, crawl_exc, finish_reason,
                   life, retriggers, outside, engineRun>>

\* Crawler._call_middlewares_open_spider: downloader middlewares, then spider
\* middlewares; an error of a hook is logged and the loop goes on
OpenEvents ==
    [i \in 1..Len(middlewares \o spider_mws) |->
        Event("mw.open_spider", (middlewares \o spider_mws)[i], "None")]

\* Crawler._call_middlewares_close_spider: reversed(downloader) + reversed(spider)
CloseOrder == Reverse(middlewares) \o Reverse(spider_mws)

CloseEvents ==
    [i \in 1..Len(CloseOrder) |-> Event("mw.close_spider", CloseOrder[i], "None")]

call_middlewares_open_spider ==
    /\ cpc = "open_middlewares"
    /\ life' = life \o OpenEvents
    /\ cpc' = "open_spider"
    /\ UNCHANGED <<pending_middlewares, spider_mws, c_engine, handler_manager,
                   c_scheduler, spider_signals, c_finalized, crawl_exc,
                   finish_reason, retriggers, middlewares, reversed_mws,
                   outside, engineRun>>

\* await self.spider.open_spider(self.engine): it returns, or it raises and
\* the finally block of crawl() is entered
open_spider ==
    /\ cpc = "open_spider"
    /\ life' = Append(life, Event("spider.open_spider", 0, "None"))
    /\ \E raises \in BOOLEAN :
          /\ crawl_exc' = IF raises THEN "HookError" ELSE crawl_exc
          /\ cpc' = IF raises THEN "finalize" ELSE "spider_opened"
    /\ UNCHANGED <<pending_middlewares, spider_mws, c_engine, handler_manager,
                   c_scheduler, spider_signals, c_finalized, finish_reason,
                   retriggers, middlewares, reversed_mws, outside, engineRun>>

\* await self.spider.signals.send_async("spider_opened", spider=self.spider)
spider_opened ==
    /\ cpc = "spider_opened"
    /\ life' = Append(life, Event("spider_opened", 0, "None"))
    /\ cpc' = "engine"
    /\ UNCHANGED <<pending_middlewares, spider_mws, c_engine, handler_manager,
                   c_scheduler, spider_signals, c_finalized, crawl_exc,
                   finish_reason, retriggers, middlewares, reversed_mws,
                   outside, engineRun>>

\* await self.engine.crawl(), as the Crawler sees it: the engine closes the
\* scheduler in its finally block, and either returns or emits spider_error
\* and raises the exception again
engine_crawl ==
    /\ cpc = "engine"
    /\ \E raises \in BOOLEAN :
          /\ life' = life \o <<Event("engine.crawl", 0, "None")>>
                          \o (IF raises
                              THEN <<Event("spider_error", 0, "EngineError")>>
                              ELSE << >>)
          /\ crawl_exc' = IF raises THEN "EngineError" ELSE crawl_exc
    /\ close
    /\ cpc' = "finalize"
    /\ UNCHANGED <<pending_middlewares, spider_mws, c_engine, handler_manager,
                   c_scheduler, spider_signals, c_finalized, finish_reason,
                   retriggers, middlewares, reversed_mws, engineRun>>

\* on_spider_closed: str(reason) if reason else "finished"
StatsReason(reason) == IF reason = "None" THEN "finished" ELSE reason

\* the reason that _finalize_spider passes to close_spider and spider_closed
FinalizeReason == "None"

\* what _finalize_spider calls and emits when it was not run before
FinalizeEvents ==
    <<Event("spider.close_spider", 0, FinalizeReason)>>
    \o (IF spider_signals
        THEN <<Event("spider_closed", 0, FinalizeReason)>> ELSE << >>)
    \o (IF c_engine THEN CloseEvents ELSE << >>)
    \o <<Event("final_stats", 0, "None")>>

\* _finalize_spider without its guard
FinalizedNever == FALSE

\* _finalize_spider: if self._finalized: return
Finalized == c_finalized

\* Crawler._finalize_spider applied to the log `lg`: the log and the finish
\* reason it leaves
FinalizedLog(lg) == IF Finalized THEN lg ELSE lg \o FinalizeEvents

FinalizedReason ==
    IF ~Finalized /\ spider_signals THEN StatsReason(FinalizeReason)
    ELSE finish_reason

\* what _cleanup_resources calls: close() on what the Crawler still refers to
CleanupEvents ==
    (IF handler_manager THEN <<Event("handler_manager.close", 0, "None")>> ELSE << >>)
    \o (IF c_scheduler THEN <<Event("scheduler.close", 0, "None")>> ELSE << >>)

\* Crawler._finalize_spider
finalize_spider ==
    /\ life' = FinalizedLog(life)
    /\ finish_reason' = FinalizedReason
    /\ c_finalized' = TRUE
    /\ c_engine' = IF Finalized THEN c_engine ELSE FALSE
    /\ UNCHANGED <<pending_middlewares, spider_mws, handler_manager, c_scheduler,
                   spider_signals, crawl_exc, middlewares, reversed_mws,
                   outside, engineRun>>

\* Crawler._cleanup_resources
cleanup_resources ==
    /\ life' = life \o CleanupEvents
    /\ handler_manager' = FALSE
    /\ c_scheduler' = FALSE
    /\ IF c_scheduler THEN close ELSE UNCHANGED outside
    /\ UNCHANGED <<pending_middlewares, spider_mws, c_engine, spider_signals,
                   c_finalized, crawl_exc, finish_reason, middlewares,
                   reversed_mws, engineRun>>

\* Crawler.__aexit__: _finalize_spider, then _cleanup_resources
aexit ==
    /\ life' = FinalizedLog(life) \o CleanupEvents
    /\ finish_reason' = FinalizedReason
    /\ c_finalized' = TRUE
    /\ c_engine' = IF Finalized THEN c_engine ELSE FALSE
    /\ handler_manager' = FALSE
    /\ c_scheduler' = FALSE
    /\ IF c_scheduler THEN close ELSE UNCHANGED outside
    /\ UNCHANGED <<pending_middlewares, spider_mws, spider_signals, crawl_exc,
                   middlewares, reversed_mws, engineRun>>

\* a Crawler before crawl() is called
CrawlerInit ==
    /\ InitCommon
    /\ maxsize = 0
    /\ qmode = "block"
    /\ concurrency = 0
    /\ tracing = FALSE

CrawlerAddMiddleware ==
    /\ cpc = "new"
    /\ Len(pending_middlewares) < NumMw
    /\ \E k \in Kinds : crawler_add_middleware(k)
    /\ UNCHANGED <<cpc, spider_mws, c_engine, handler_manager, c_scheduler,
                   spider_signals, c_finalized, crawl_exc, finish_reason, life,
                   retriggers, middlewares, reversed_mws, outside, engineRun>>

\* crawl(), finally: await self._finalize_spider()
CrawlFinalize ==
    /\ cpc = "finalize"
    /\ finalize_spider
    /\ cpc' = "cleanup"
    /\ UNCHANGED retriggers

\* crawl(), finally: await self._cleanup_resources(); crawl() then returns,
\* or the exception goes on to the caller
CrawlCleanup ==
    /\ cpc = "cleanup"
    /\ cleanup_resources
    /\ cpc' = IF crawl_exc = "None" THEN "returned" ELSE "raised"
    /\ UNCHANGED retriggers

\* crawl() is over; the context manager without a crawl() is left as well
Over == cpc \in {"returned", "raised", "exited"}

\* the async context is left, after crawl() or without a crawl() having run
AExit ==
    /\ cpc = "new" \/ Over
    /\ retriggers < MaxRetrigger
    /\ aexit
    /\ retriggers' = retriggers + 1
    /\ cpc' = IF cpc = "new" THEN "exited" ELSE cpc

\* a further call of _finalize_spider
FinalizeAgain ==
    /\ Over
    /\ retriggers < MaxRetrigger
    /\ finalize_spider
    /\ retriggers' = retriggers + 1
    /\ UNCHANGED cpc

\* a further call of _cleanup_resources
CleanupAgain ==
    /\ Over
    /\ retriggers < MaxRetrigger
    /\ cleanup_resources
    /\ retriggers' = retriggers + 1
    /\ UNCHANGED cpc

CrawlerNext ==
    \/ CrawlerAddMiddleware
    \/ crawler_setup
    \/ call_middlewares_open_spider
    \/ open_spider
    \/ spider_opened
    \/ engine_crawl
    \/ CrawlFinalize
    \/ CrawlCleanup
    \/ AExit
    \/ FinalizeAgain
    \/ CleanupAgain

CrawlerSpec == CrawlerInit /\ [][CrawlerNext]_vars

\* ------------------------------------------- the queue used on its own
\* MemoryPriorityQueue.put called directly by a producer
q_put(priority) ==
    /\ reqs' = Append(reqs, NewRequest(1, priority))
    /\ put(Len(reqs) + 1, priority, 0)
    /\ UNCHANGED <<qclosed, maxsize, qmode, getters, schedVars, taskVars,
                   dispatched, scheduled, done, tdRaised, handed, waiting, qlog>>

\* what a get() that returns hands out: the least entry
q_pop ==
    /\ pq' = pq \ {PQMin(pq)}
    /\ qlog' = Append(qlog, [req |-> PQMin(pq)[3], stored |-> enq])

\* MemoryPriorityQueue.get called directly by a consumer
q_get ==
    /\ IF qclosed /\ size = 0
       THEN \* raise asyncio.CancelledError
            UNCHANGED <<pq, qlog, getters>>
       ELSE IF size > 0
       THEN q_pop /\ UNCHANGED getters
       ELSE \* asyncio.PriorityQueue.get suspends
            getters' = getters + 1 /\ UNCHANGED <<pq, qlog>>
    /\ UNCHANGED <<reqs, counter, qclosed, maxsize, qmode, schedVars, taskVars,
                   adds, dispatched, scheduled, enq, qfull, done, tdRaised,
                   handed, waiting>>

\* a suspended get() resumes once a put() has stored an entry
q_get_wakeup ==
    /\ getters > 0
    /\ size > 0
    /\ q_pop
    /\ getters' = getters - 1
    /\ UNCHANGED <<reqs, counter, qclosed, maxsize, qmode, schedVars, taskVars,
                   adds, dispatched, scheduled, enq, qfull, done, tdRaised,
                   handed, waiting>>

\* MemoryPriorityQueue.close
q_close ==
    /\ ~qclosed
    /\ qclosed' = TRUE
    /\ UNCHANGED <<reqs, pq, counter, maxsize, qmode, getters, schedVars,
                   taskVars, adds, obsVars>>

MemoryConfigs == {c \in QueueConfigs : c[2] = "block"}

QueueInit ==
    /\ InitCommon
    /\ \E c \in MemoryConfigs : maxsize = c[1] /\ qmode = c[2]
    /\ concurrency = 0
    /\ tracing = FALSE

\* a closed queue ignores the request, so one priority stands for all
PutPriorities == IF qclosed THEN {1} ELSE Priorities

QPut ==
    /\ Len(reqs) < MaxPuts
    /\ Cardinality(adds) < MaxAdds
    /\ \E priority \in PutPriorities : q_put(priority)
    /\ UNCHANGED engineVars

QGet == getters < NumTasks /\ q_get /\ UNCHANGED engineVars

QGetWakeup == q_get_wakeup /\ UNCHANGED engineVars

QueueNext ==
    \/ QPut
    \/ PutWakeup
    \/ QGet
    \/ QGetWakeup

\* an open queue with producers and consumers
QueueSpec == QueueInit /\ [][QueueNext]_vars

\* ------------------------------------- the queue closed and then drained
QClose == q_close /\ UNCHANGED engineVars

\* RequestQueue.__anext__: get(), with CancelledError turned into
\* StopAsyncIteration
anext ==
    /\ q_get
    /\ IF qclosed /\ size = 0
       THEN it' = "stopped" /\ UNCHANGED yielded
       ELSE IF size > 0
       THEN it' = "running" /\ yielded' = Append(yielded, PQMin(pq)[3])
       ELSE it' = "suspended" /\ UNCHANGED yielded

\* an "async for" loop over the queue begins: __aiter__ returns the queue
\* and the first __anext__ is awaited in the same step
aiter ==
    /\ it = "none"
    /\ remaining' = {e[3] : e \in pq}
    /\ anext

notIterVars == <<middlewares, reversed_mws, running, concurrency, mpc, wpc, wreq,
                 tracing, crawlerVars, standaloneVars, trace, dropped, retried,
                 unexpected>>

DrainPut ==
    /\ Len(reqs) < MaxDrain
    /\ Cardinality(adds) < MaxAdds
    /\ \E priority \in PutPriorities : q_put(priority)
    /\ UNCHANGED engineVars

\* the loop is started on a queue that was closed
AIter == qclosed /\ aiter /\ UNCHANGED notIterVars

\* the body of the loop has run and the next request is asked for
ANext == it = "running" /\ anext /\ UNCHANGED <<remaining, notIterVars>>

DrainNext ==
    \/ DrainPut
    \/ PutWakeup
    \/ QGet
    \/ QGetWakeup
    \/ QClose
    \/ AIter
    \/ ANext

\* a queue with producers and consumers that is closed and iterated over
DrainSpec == QueueInit /\ [][DrainNext]_vars

\* ------------------------------------------------ DownloadHandlerManager
\* the names a handler can be configured under
HandlerNames == {"http", "ftp", "camoufox"}

\* request.meta.get("use_handler"): absent, or a name, configured or not
UseHandlers == {"None", "camoufox", "ftp", "s3"}

\* urlparse(request.url).scheme: empty when the URL has none
Schemes == {"http", "ftp", "s3", ""}

\* name in self._handler_configs
Configured(name) == \E i \in 1..Len(h_configs) : h_configs[i] = name

\* a routing that looks at the URL scheme before request.meta
_select_handler_scheme_first(use, scheme) ==
    IF Configured(scheme) THEN scheme
    ELSE IF use # "None" /\ Configured(use) THEN use
    ELSE IF Configured("http") THEN "http"
    ELSE IF h_configs # << >> THEN h_configs[1]
    ELSE "RuntimeError"

\* DownloadHandlerManager._select_handler
_select_handler(use, scheme) ==
    IF use # "None" /\ Configured(use) THEN use
    ELSE IF Configured(scheme) THEN scheme
    ELSE IF Configured("http") THEN "http"
    ELSE IF h_configs # << >> THEN h_configs[1]
    ELSE "RuntimeError"

\* name in self._handlers
Materialized(name) == \E i \in 1..Len(h_handlers) : h_handlers[i] = name

HandlerEvent(e, name, err) == [e |-> e, name |-> name, err |-> err]

\* DownloadHandlerManager.fetch up to its first suspension: in the handler's
\* create() when the handler is not materialized yet, else in handler.fetch
hm_fetch(t, use, scheme) ==
    /\ h_call[t] = NoCall
    /\ h_fetches' = h_fetches + 1
    /\ IF h_closed
       THEN \* RuntimeError("Cannot fetch: handler manager is closed")
            UNCHANGED <<h_routed, h_call, h_log>>
       ELSE LET name == _select_handler(use, scheme)
            IN  /\ h_routed' = [use |-> use, scheme |-> scheme, name |-> name]
                /\ IF name = "RuntimeError"
                   THEN UNCHANGED <<h_call, h_log>>
                   ELSE IF Materialized(name)
                   THEN /\ h_call' = [h_call EXCEPT ![t] = [name |-> name, stage |-> "fetch"]]
                        /\ h_log' = Append(h_log, HandlerEvent("fetch", name, FALSE))
                   ELSE /\ h_call' = [h_call EXCEPT ![t] = [name |-> name, stage |-> "create"]]
                        /\ UNCHANGED h_log
    /\ UNCHANGED <<h_configs, h_handlers, h_closed, h_todo, h_pc>>

\* _get_or_create_handler from the handler's create() on: the instance is
\* cached under its name and handler.fetch is called, or the creation fails
hm_created(t, ok) ==
    /\ h_call[t].stage = "create"
    /\ IF ok
       THEN /\ h_handlers' = IF Materialized(h_call[t].name) THEN h_handlers
                              ELSE Append(h_handlers, h_call[t].name)
            /\ h_log' = h_log \o <<HandlerEvent("create", h_call[t].name, FALSE),
                                    HandlerEvent("fetch", h_call[t].name, FALSE)>>
            /\ h_call' = [h_call EXCEPT ![t].stage = "fetch"]
       ELSE /\ h_call' = [h_call EXCEPT ![t] = NoCall]
            /\ UNCHANGED <<h_handlers, h_log>>
    /\ UNCHANGED <<h_configs, h_closed, h_todo, h_pc, h_routed, h_fetches>>

\* handler.fetch returns a page or raises: fetch() is over
hm_fetched(t) ==
    /\ h_call[t].stage = "fetch"
    /\ h_call' = [h_call EXCEPT ![t] = NoCall]
    /\ UNCHANGED <<h_configs, h_handlers, h_closed, h_todo, h_pc, h_routed, h_log,
                   h_fetches>>

\* DownloadHandlerManager.close up to the first handler's close()
hm_close ==
    /\ IF h_closed
       THEN UNCHANGED <<h_closed, h_todo, h_pc, h_handlers, h_log>>
       ELSE /\ h_closed' = TRUE
            /\ h_todo' = h_handlers
            /\ h_pc' = IF h_handlers = << >> THEN "closed" ELSE "closing"
            /\ h_log' = Append(h_log, HandlerEvent("closing", "", FALSE))
            /\ UNCHANGED h_handlers
    /\ UNCHANGED <<h_configs, h_call, h_routed, h_fetches>>

\* a close loop that gives up at the first handler whose close() raises
hm_close_handler_until_error(err) ==
    /\ h_pc = "closing"
    /\ h_log' = Append(h_log, HandlerEvent("close", Head(h_todo), err))
    /\ h_todo' = IF err THEN << >> ELSE Tail(h_todo)
    /\ IF h_todo' = << >>
       THEN h_pc' = "closed" /\ h_handlers' = << >>
       ELSE UNCHANGED <<h_pc, h_handlers>>
    /\ UNCHANGED <<h_configs, h_closed, h_call, h_routed, h_fetches>>

\* close(): one round of the loop over the snapshot of the handlers; an
\* exception of handler.close() is logged and the loop goes on. After the
\* last handler self._handlers.clear()
hm_close_handler(err) ==
    /\ h_pc = "closing"
    /\ h_log' = Append(h_log, HandlerEvent("close", Head(h_todo), err))
    /\ h_todo' = Tail(h_todo)
    /\ IF h_todo' = << >>
       THEN h_pc' = "closed" /\ h_handlers' = << >>
       ELSE UNCHANGED <<h_pc, h_handlers>>
    /\ UNCHANGED <<h_configs, h_closed, h_call, h_routed, h_fetches>>

notHandlerVars == <<outside, iterVars, middlewares, reversed_mws, running,
                    concurrency, mpc, wpc, wreq, tracing, crawlerVars, trace,
                    dropped, retried, unexpected, workerCountVars, signalVars,
                    crawlExitVars, emitVars, ctxVars,
                   chainVars>>

\* the ways to configure up to MaxHandlers handlers: the names are the keys
\* of a dict, its order is the order of insertion
HandlerConfigs ==
    {c \in UNION {[1..n -> HandlerNames] : n \in 0..MaxHandlers} :
        \A i, j \in 1..Len(c) : i # j => c[i] # c[j]}

HandlerInit ==
    /\ EngineState
    /\ middlewares = << >>
    /\ reversed_mws = << >>
    /\ maxsize = 0
    /\ qmode = "block"
    /\ concurrency = 0
    /\ tracing = FALSE
    /\ h_configs \in HandlerConfigs
    /\ NoConcurrencyGiven
    /\ NoChainGiven
    /\ sig_handlers = << >>

\* tasks that are in no fetch() call are interchangeable: the least calls
FreeTask ==
    IF \E t \in Tasks : h_call[t] = NoCall
    THEN CHOOSE t \in Tasks : h_call[t] = NoCall /\ \A u \in Tasks : h_call[u] = NoCall => t <= u
    ELSE 0

\* a request without meta["use_handler"] is fetched
HmFetch ==
    /\ h_fetches < MaxFetch
    /\ FreeTask \in Tasks
    /\ \E scheme \in Schemes : hm_fetch(FreeTask, "None", scheme)
    /\ UNCHANGED notHandlerVars

\* a request is fetched, with or without meta["use_handler"]
HmFetchAny ==
    /\ h_fetches < MaxFetch
    /\ FreeTask \in Tasks
    /\ \E use \in UseHandlers : \E scheme \in Schemes : hm_fetch(FreeTask, use, scheme)
    /\ UNCHANGED notHandlerVars

HmCreated == \E t \in Tasks : \E ok \in BOOLEAN : hm_created(t, ok) /\ UNCHANGED notHandlerVars

HmFetched == \E t \in Tasks : hm_fetched(t) /\ UNCHANGED notHandlerVars

\* close() is called, for the first time or again
HmClose == hm_close /\ UNCHANGED notHandlerVars

HmCloseHandler == \E err \in BOOLEAN : hm_close_handler(err) /\ UNCHANGED notHandlerVars

HandlerNext ==
    \/ HmFetch
    \/ HmCreated
    \/ HmFetched
    \/ HmClose
    \/ HmCloseHandler

HandlerSpec == HandlerInit /\ [][HandlerNext]_vars

\* the routing of requests on a handler manager that stays open
RoutingNext ==
    \/ HmFetchAny
    \/ HmCreated
    \/ HmFetched

RoutingSpec == HandlerInit /\ [][RoutingNext]_vars

\* ================================================================ claims
\* C1: of the requests whose fingerprints are equal, only the first one
\* added is ever dispatched to a consumer; the later ones never come out.
C1_OnlyFirstDispatched ==
    \A i, j \in 1..Len(reqs) :
        (i < j /\ reqs[i].fp = reqs[j].fp) => j \notin dispatched

\* the task that has been suspended in get() the longest and is still live
OldestLive ==
    LET live == SelectSeq(waiting, LAMBDA t : fut[t] = "pending")
    IN  IF live = << >> THEN 0 ELSE Head(live)

\* C5: when add() admits a request while a live consumer is suspended in
\* get(), the request is delivered to the consumer that has waited longest,
\* that consumer alone is resumed, and the request neither enters the queue
\* nor is on its way to it; a request handed over is never enqueued later.
C5_DirectHandoff ==
    /\ [][(scheduled' # scheduled /\ OldestLive # 0) =>
            /\ fut'[OldestLive] = "result"
            /\ fres'[OldestLive] = Len(reqs')
            /\ \A t \in Tasks \ {OldestLive} : fut'[t] = fut[t] /\ fres'[t] = fres[t]
            /\ pq' = pq
            /\ \A a \in adds' : a.req # Len(reqs')]_vars
    /\ [](handed \cap enq = {})

\* two consumers were waiting and two successive add() calls served both
C5_Witness ==
    \E t1, t2 \in Tasks :
        /\ fut[t1] = "result" /\ fut[t2] = "result"
        /\ fres[t1] < fres[t2]
        /\ handed = {fres[t1], fres[t2]}
        /\ enq = {}

\* a precedes b in the queue's order: lower priority value first, and among
\* equal priorities the request put earlier (requests are numbered as put)
Precedes(a, b) ==
    \/ reqs[a].priority < reqs[b].priority
    \/ reqs[a].priority = reqs[b].priority /\ a < b

Returned == [i \in 1..Len(qlog) |-> qlog[i].req]

\* C2: a request that get() returns precedes every request that was in the
\* queue at that moment and is returned later: ascending priority value, and
\* first-put-first-returned among equal priorities. Five requests put with
\* priorities 5, 1, 1, 5, 3 before the first get come out as 2, 3, 5, 1, 4.
C2_PriorityThenFifo ==
    /\ \A i, j \in 1..Len(qlog) :
          (i < j /\ qlog[j].req \in qlog[i].stored) => Precedes(qlog[i].req, qlog[j].req)
    /\ ( /\ Len(reqs) = 5
         /\ [i \in 1..5 |-> reqs[i].priority] = <<5, 1, 1, 5, 3>>
         /\ Len(qlog) = 5
         /\ qlog[1].stored = 1..5 )
       => Returned = <<2, 3, 5, 1, 4>>

\* the five requests of the example were put, then all five were returned
C2_Witness ==
    /\ Len(reqs) = 5
    /\ [i \in 1..5 |-> reqs[i].priority] = <<5, 1, 1, 5, 3>>
    /\ Len(qlog) = 5
    /\ qlog[1].stored = 1..5
    /\ Returned = <<2, 3, 5, 1, 4>>
\* ---------------------------------------------- claims about the engine
HookNames == {"process_request", "process_response", "process_exception"}

\* the calls of hook m made for the current request of worker w, in order
Hooks(w, m) == SelectSeq(trace[w], LAMBDA c : c.m = m)

\* the registered middleware in place i of the reverse of registration order
FromLast(i) == middlewares[Len(middlewares) + 1 - i]

\* C4: when a response or exception hook returns RETRY(req2) for req1 and
\* req2 is a copy of req1 (same fingerprint), request_scheduled is emitted
\* for req2 and request_dropped is not emitted for req1.
C4_RetryCopyScheduled ==
    \A w \in Tasks : \A i \in 1..Len(trace[w]) :
        LET c == trace[w][i]
        IN  ( /\ c.m \in {"process_response", "process_exception"}
              /\ c.out = "RETRY"
              /\ c.exc # "cancelled" )
            => \A p \in retried :
                 (p[1] = c.req /\ reqs[p[2]].fp = reqs[p[1]].fp)
                 => /\ p[2] \in scheduled
                    /\ \A e \in {"None", "network", "other", "TypeError"} :
                          <<c.req, e>> \notin dropped

\* C6: for every request the process_request hooks are called in
\* registration order, first registered first, and the process_response and
\* process_exception hooks in reverse registration order, last registered first.
C6_HookOrder ==
    \A w \in Tasks :
        LET rq == Hooks(w, "process_request")
            rs == Hooks(w, "process_response")
            ex == Hooks(w, "process_exception")
        IN  /\ \A i \in 1..Len(rq) : rq[i].mw = middlewares[i]
            /\ \A i \in 1..Len(rs) : rs[i].mw = FromLast(i)
            /\ \A i \in 1..Len(ex) : ex[i].mw = FromLast(i)

\* one request went through all three chains of at least two middlewares
C6_Witness ==
    \E w \in Tasks :
        /\ Len(middlewares) >= 2
        /\ Len(Hooks(w, "process_request")) = Len(middlewares)
        /\ Len(Hooks(w, "process_response")) = Len(middlewares)
        /\ Len(Hooks(w, "process_exception")) = Len(middlewares)

\* C7: when process_request of a middleware returns KEEP(response), no later
\* process_request hook is called, the fetch is skipped, the request is not
\* dropped with an error, and before the response is parsed the response
\* phase runs from that middleware on.
C7_KeepEntersResponsePhase ==
    \A w \in Tasks : \A i \in 1..Len(trace[w]) :
        LET c == trace[w][i]
        IN  (c.m = "process_request" /\ c.out = "KEEP")
            => /\ \A j \in (i + 1)..Len(trace[w]) : trace[w][j].m # "process_request"
               /\ \A j \in 1..Len(trace[w]) : trace[w][j].m # "fetch"
               /\ <<c.req, "TypeError">> \notin dropped
               /\ \A j \in 1..Len(trace[w]) :
                     trace[w][j].m = "parse"
                     => \E k \in (i + 1)..(j - 1) :
                           /\ trace[w][k].m = "process_response"
                           /\ trace[w][k].mw = c.mw

\* the RETRY results of hooks that the engine acted on, for the current request
RetriesActedOn(w) ==
    {i \in 1..Len(trace[w]) :
        /\ trace[w][i].m \in HookNames
        /\ trace[w][i].out = "RETRY"
        /\ trace[w][i].exc # "cancelled"}

\* after a hook returned RETRY or DROP: no later hook of that phase, no parse
StopsPhase(w, i) ==
    /\ \A j \in (i + 1)..Len(trace[w]) : trace[w][j].m # trace[w][i].m
    /\ \A j \in (i + 1)..Len(trace[w]) : trace[w][j].m # "parse"

\* C8: in each phase, once a hook returns RETRY or DROP no later hook of
\* that phase is called and parse is not run; RETRY hands its request to
\* scheduler.add and DROP emits request_dropped(request, exception=None).
C8_RetryDropActedOn ==
    \A w \in Tasks : \A i \in 1..Len(trace[w]) :
        LET c == trace[w][i]
        IN  (c.m \in HookNames /\ c.out \in {"RETRY", "DROP"})
            => /\ StopsPhase(w, i)
               /\ c.out = "RETRY" => \E p \in retried : p[1] = c.req
               /\ c.out = "DROP" => <<c.req, "None">> \in dropped

\* C8 as amended: the same, except that the result of the exception chain
\* which a cancelled worker runs is discarded: its RETRY is not handed to
\* scheduler.add and its DROP emits no request_dropped.
C8_Amended ==
    \A w \in Tasks :
        /\ \A i \in 1..Len(trace[w]) :
            LET c == trace[w][i]
            IN  (c.m \in HookNames /\ c.out \in {"RETRY", "DROP"})
                => /\ StopsPhase(w, i)
                   /\ (c.out = "DROP" /\ c.exc # "cancelled")
                        => <<c.req, "None">> \in dropped
                   /\ (c.out = "DROP" /\ c.exc = "cancelled")
                        => <<c.req, "None">> \notin dropped
        /\ trace[w] # << >> =>
              Cardinality({p \in retried : p[1] = trace[w][1].req})
                 = Cardinality(RetriesActedOn(w))

\* a response hook returned RETRY and its request went to scheduler.add; in
\* another run a cancelled worker's exception chain returned DROP
C8_Witness ==
    \E w \in Tasks : \E i \in 1..Len(trace[w]) :
        /\ trace[w][i].m = "process_exception"
        /\ trace[w][i].exc = "cancelled"
        /\ trace[w][i].out = "DROP"
        /\ wpc[w] = "stopped"

\* the calls of the exception chain that handles a network-class exception
Handling(w) ==
    SelectSeq(trace[w], LAMBDA c : c.m = "process_exception" /\ c.exc = "network")

\* a step of processing raised exception e (hooks of the exception chain apart)
Raised(w, i, e) ==
    /\ trace[w][i].m # "process_exception"
    /\ trace[w][i].out = e

\* C9: an exception that is not network-class is not passed to the exception
\* chain and is dropped with request_dropped; a network-class one goes through
\* the exception chain in reverse order, CONTINUE passing to the next hook,
\* RETRY and DROP ending the chain, and when every hook returned CONTINUE the
\* request is dropped with request_dropped(exception=e).
C9_ExceptionHandling ==
    \A w \in Tasks :
        LET n == Len(middlewares)
            E == Handling(w)
        IN  /\ \A i \in 1..Len(trace[w]) :
                 Raised(w, i, "raise_other")
                 => /\ \A j \in (i + 1)..Len(trace[w]) :
                          trace[w][j].m # "process_exception"
                    /\ <<trace[w][i].req, "other">> \in dropped
            /\ \A i \in 1..Len(trace[w]) :
                 (Raised(w, i, "raise_network") /\ wpc[w] # "exception")
                 => /\ n > 0 => Len(E) >= 1
                    /\ (Len(E) = n /\ \A k \in 1..n : E[k].out = "CONTINUE")
                         => <<trace[w][i].req, "network">> \in dropped
            /\ \A k \in 1..Len(E) :
                 /\ E[k].mw = FromLast(k)
                 /\ E[k].out \in ShortCircuits => k = Len(E)
                 /\ (E[k].out = "CONTINUE" /\ k < n) => k < Len(E)

\* a network-class exception went through the whole chain of at least two
\* hooks, each returned CONTINUE, and the request was dropped with it
C9_Witness ==
    \E w \in Tasks :
        /\ Len(middlewares) >= 2
        /\ Len(Handling(w)) = Len(middlewares)
        /\ \A k \in 1..Len(Handling(w)) : Handling(w)[k].out = "CONTINUE"
        /\ <<Handling(w)[1].req, "network">> \in dropped

\* the requests dropped by the step
NewlyDropped == {p[1] : p \in dropped' \ dropped}

\* the step leaves every worker other than w where it was
SiblingsUndisturbed(w) ==
    \A s \in Tasks \ {w} :
        /\ wpc'[s] = wpc[s]
        /\ wreq'[s] = wreq[s]
        /\ fut'[s] = fut[s]
        /\ fres'[s] = fres[s]
        /\ tcancel'[s] = tcancel[s]

\* C10: when a hook, the fetch or parse raises an unexpected exception while
\* worker w processes request r, no sibling worker is terminated or disturbed,
\* request_dropped is emitted for r, and w goes back to take the next request.
C10_UnexpectedIsolated ==
    [][\A p \in unexpected' \ unexpected :
          /\ SiblingsUndisturbed(p[1])
          /\ p[2] \in NewlyDropped
          /\ wpc'[p[1]] = "idle"]_vars

\* C10 as amended: the same, except for a worker that was cancelled and runs
\* the exception chain for the cancellation: an exception raised by a hook of
\* that chain is suppressed, no request_dropped is emitted and the worker
\* stops; its siblings are not disturbed either.
C10_Amended ==
    [][\A p \in unexpected' \ unexpected :
          /\ SiblingsUndisturbed(p[1])
          /\ wpc[p[1]] # "cancelling" =>
                /\ p[2] \in NewlyDropped
                /\ wpc'[p[1]] = "idle"
          /\ wpc[p[1]] = "cancelling" =>
                /\ NewlyDropped = {}
                /\ wpc'[p[1]] = "stopped"]_vars

\* a worker hit an unexpected exception, its request was dropped and it is
\* back in get() for the next one, while a sibling is in the middle of a fetch
C10_Witness ==
    \E p \in unexpected : \E s \in Tasks \ {p[1]} :
        /\ <<p[2], "other">> \in dropped
        /\ wpc[p[1]] = "get"
        /\ wpc[s] = "fetch"
        /\ wreq[s] \notin {0, p[2]}

\* C3: when every get is paired with one task_done and the crawl graph is
\* finite, pending reaches 0, join() completes and crawl() returns: the crawl
\* does not come to rest anywhere but after crawl() has returned with pending 0.
C3_Completion ==
    (~ENABLED CrawlNext) => (mpc = "returned" /\ pending = 0)

\* ---------------------------------------------- claims about the Crawler
\* the places in the log where e was called or emitted
At(e) == {i \in 1..Len(life) : life[i].e = e}

\* the place of an event in the lifecycle
Phase(e) ==
    CASE e = "mw.open_spider" -> 1
      [] e = "spider.open_spider" -> 2
      [] e = "spider_opened" -> 3
      [] e \in {"engine.crawl", "spider_error"} -> 4
      [] e = "spider.close_spider" -> 5
      [] e = "spider_closed" -> 6
      [] e = "mw.close_spider" -> 7
      [] e = "final_stats" -> 8
      [] e \in {"handler_manager.close", "scheduler.close"} -> 9

\* the middlewares registered, by their place in the order of registration
Registered == 1..Len(pending_middlewares)

\* crawl() ran the engine and has come to its end
CrawlDone == cpc \in {"returned", "raised"} /\ At("engine.crawl") # {}

\* C11: crawl() calls open_spider on every middleware, then spider.open_spider
\* and spider_opened, then engine.crawl(), then the finalization: spider's
\* close_spider, spider_closed, the middlewares' close_spider in reverse
\* registration order, handler manager and scheduler closed; the finalization
\* runs also when engine.crawl() raised.
C11_Lifecycle ==
    /\ \A i, j \in 1..Len(life) : i < j => Phase(life[i].e) <= Phase(life[j].e)
    /\ At("spider.open_spider") # {} =>
          \A m \in Registered :
              \E i \in At("mw.open_spider") : life[i].mw = m
    /\ \A i, j \in At("mw.close_spider") : i < j => life[i].mw > life[j].mw
    /\ CrawlDone =>
          /\ At("spider.close_spider") # {}
          /\ At("spider_closed") # {}
          /\ \A m \in Registered :
                \E i \in At("mw.close_spider") : life[i].mw = m
          /\ At("handler_manager.close") # {}
          /\ At("scheduler.close") # {}

\* how often middleware m was closed
Closes(m) == Cardinality({i \in At("mw.close_spider") : life[i].mw = m})

Releases == {"spider.close_spider", "spider_closed", "handler_manager.close",
             "scheduler.close"}

\* C12: however often finalization and cleanup are triggered, spider's
\* close_spider, spider_closed, every middleware's close_spider and the closing
\* of handler manager and scheduler happen once: never twice, and once when
\* crawl() has run.
C12_ReleasedOnce ==
    /\ \A e \in Releases : Cardinality(At(e)) <= 1
    /\ \A m \in Registered : Closes(m) <= 1
    /\ CrawlDone =>
          /\ \A e \in Releases : Cardinality(At(e)) = 1
          /\ \A m \in Registered : Closes(m) = 1

\* crawl() ran with two middlewares, and finalization and cleanup were
\* triggered again as often as can be
C12_Witness ==
    /\ CrawlDone
    /\ Len(pending_middlewares) >= 2
    /\ retriggers = MaxRetrigger
    /\ \A e \in Releases : Cardinality(At(e)) = 1
    /\ \A m \in Registered : Closes(m) = 1

\* C13: when engine.crawl() failed with exception E, spider_closed carries a
\* reason that names E, the finish reason in the stats is that of E and not
\* "finished", and the final stats snapshot was emitted.
C13_FailureReason ==
    (cpc = "raised" /\ crawl_exc = "EngineError") =>
        /\ \A i \in At("spider_closed") : life[i].reason = "EngineError"
        /\ finish_reason = "EngineError"
        /\ At("final_stats") # {}

\* C14: dedup is effective once per fingerprint: a fingerprint enters seen
\* when add() admits a request (which is when request_scheduled is emitted
\* for it), and no later request with that fingerprint is admitted, also
\* when the first one was refused by a full queue.
C14_DedupOncePerCrawl ==
    \A i, j \in scheduled : i # j => reqs[i].fp # reqs[j].fp

\* C15: a put() on an open bounded queue that already holds maxsize requests
\* fails with QueueFull: the request is recorded as refused, the contents of
\* the queue are unchanged and the call is over (it is not left waiting to
\* store the request later).
C15_PutOnFullRaises ==
    [][(reqs' # reqs /\ full /\ ~qclosed) =>
            /\ Len(reqs') \in qfull'
            /\ pq' = pq
            /\ \A a \in adds' : a.req # Len(reqs')]_vars

C18_CloseReleasesConsumers ==
    /\ [][(closed /\ close) => UNCHANGED <<queueVars, schedVars, taskVars, adds>>]_vars
    /\ [][(~closed /\ closed') =>
            /\ \A t \in Tasks : fut[t] = "pending" => fut'[t] = "cancelled"
            /\ waiters' = << >>
            /\ qclosed']_vars
    /\ [](closed => \A t \in Tasks : fut[t] # "pending")

\* close() found every consumer suspended in get() and cancelled each of them
C18_Witness ==
    /\ closed
    /\ \A t \in Tasks : fut[t] = "cancelled" /\ ~tcancel[t]

\* C19: once MemoryPriorityQueue.close() has been called, a put() changes
\* neither the contents nor the size of the queue; get() returns the stored
\* requests in priority order, first-put-first among equal priorities, and
\* on the empty queue raises Cancelled instead of suspending; an "async for"
\* loop begun on the closed queue yields only requests that the queue held
\* when the loop began, in that order, and when it stops every one of them
\* has been returned (by the loop or by a concurrent get()).
C19_ClosedQueue ==
    /\ [][(qclosed /\ reqs' # reqs) =>
            (pq' = pq /\ adds' = adds /\ counter' = counter)]_vars
    /\ [][(qclosed /\ pq = {}) => (getters' <= getters /\ it' # "suspended")]_vars
    /\ [](\A i, j \in 1..Len(qlog) :
            (i < j /\ qlog[j].req \in qlog[i].stored)
                => Precedes(qlog[i].req, qlog[j].req))
    /\ [](\A i \in 1..Len(yielded) : yielded[i] \in remaining)
    /\ [](it = "stopped" => remaining \subseteq {qlog[i].req : i \in 1..Len(qlog)})

\* C20: an add() called on a closed scheduler is a no-op: seen, pending,
\* finished, the waiters and their futures, the queue and the calls on their
\* way into it are unchanged, and no request_scheduled is emitted.
C20_AddAfterCloseNoOp ==
    [][(closed /\ reqs' # reqs) =>
            /\ UNCHANGED <<seen, pending, finished, waiters, fut, fres>>
            /\ UNCHANGED <<pq, counter, qclosed, adds>>
            /\ scheduled' = scheduled
            /\ dispatched' = dispatched]_vars

\* a request was admitted and stored, the scheduler was closed, and an add()
\* of a request with a fingerprint never seen before was ignored
C20_Witness ==
    /\ closed
    /\ Len(reqs) = 2
    /\ reqs[2].fp # reqs[1].fp
    /\ scheduled = {1}
    /\ seen = {reqs[1].fp}
    /\ pending = 1
    /\ size = 1

\* the calls that worker w made to the hooks of the middleware at place c
\* while it processed its latest request
CallsOf(w, c) == {i \in 1..Len(trace[w]) : trace[w][i].mw = c}

\* the middleware at place c behaved as a ConcurrencyMiddleware does
IsConcurrencyMiddleware(w, c) ==
    \A i \in CallsOf(w, c) : trace[w][i].out \in ConcurrencyResults(trace[w][i].m)

\* worker w is not processing a request
Between(w) == wpc[w] \in {"idle", "get", "stopped", "crashed"}

\* C21: when a request has finished processing, whatever its outcome, the
\* slot that a ConcurrencyMiddleware acquired for it in process_request was
\* released by a later process_response or process_exception of that
\* middleware. The ConcurrencyMiddleware may stand at any place of the chain.
C21_SlotReleased ==
    \A w \in Tasks : \A c \in 1..Len(middlewares) :
        (Between(w) /\ IsConcurrencyMiddleware(w, c)) =>
            \A i \in CallsOf(w, c) :
                SlotAcquired(trace[w][i]) =>
                    \E j \in CallsOf(w, c) : j > i /\ SlotReleased(trace[w][j])

\* C22: the handler chosen for a request is the one named by
\* meta["use_handler"] if it is configured; otherwise the one named by the
\* URL scheme if it is configured; otherwise "http" if it is configured;
\* otherwise the first configured handler; the routing fails only when no
\* handler is configured.
C22_RoutingOrder ==
    h_routed # NotRouted =>
        LET byMeta == h_routed.use # "None" /\ Configured(h_routed.use)
            byScheme == Configured(h_routed.scheme)
        IN  /\ byMeta => h_routed.name = h_routed.use
            /\ (~byMeta /\ byScheme) => h_routed.name = h_routed.scheme
            /\ (~byMeta /\ ~byScheme /\ Configured("http")) => h_routed.name = "http"
            /\ (~byMeta /\ ~byScheme /\ ~Configured("http") /\ h_configs # << >>)
                   => h_routed.name = h_configs[1]
            /\ h_routed.name = "RuntimeError" <=> h_configs = << >>

\* "ftp" and "camoufox" are configured and a request for an ftp URL names
\* "camoufox" in its meta: meta wins over the scheme and over the first handler
C22_Witness ==
    /\ h_configs = <<"ftp", "camoufox">>
    /\ h_routed = [use |-> "camoufox", scheme |-> "ftp", name |-> "camoufox"]

\* the names of the events e in the log of the handler manager, by place
HandlerEvents(e) == {i \in 1..Len(h_log) : h_log[i].e = e}

\* the place in the log at which close() closed the manager (0: not yet)
ClosedAt ==
    IF HandlerEvents("closing") = {} THEN 0
    ELSE CHOOSE i \in HandlerEvents("closing") : TRUE

\* the handlers that were materialized when close() was called
MaterializedAtClose ==
    {h_log[i].name : i \in {k \in HandlerEvents("create") : k < ClosedAt}}

MaxConcDelta == 1

\* the default number of workers
DefaultConcurrency == 10
\* the largest number of workers accepted
MaxConcurrency == 10000

PyInt(n) == [type |-> "int", val |-> n]

\* the integers tried: around both ends of the accepted range, and the default
IntSamples ==
    ((0 - MaxConcDelta)..(1 + MaxConcDelta))
        \cup ((MaxConcurrency - MaxConcDelta)..(MaxConcurrency + MaxConcDelta))
        \cup {DefaultConcurrency}

\* the values an attribute named concurrency can hold: None (also when the
\* attribute or runtime_settings is missing), an int, True or False, a float
\* such as 4.0, a str such as "4"
PyValues ==
    {PyNone} \cup {PyInt(n) : n \in IntSamples}
        \cup {[type |-> "bool", val |-> b] : b \in {0, 1}}
        \cup {[type |-> "float", val |-> 4], [type |-> "str", val |-> 4]}

\* isinstance(v, int) and not isinstance(v, bool)
IsTrueInt(v) == v.type = "int"

\* the value of the local variable concurrency after the look-up: the
\* spider's attribute unless it is None, then the settings' value when that is
\* a true int
LookedUp(sp, rs) ==
    IF sp = PyNone
    THEN IF IsTrueInt(rs) THEN rs ELSE PyNone
    ELSE sp

\* the settings are consulted whenever the spider's value is not usable
resolve_concurrency_from_settings(sp, rs) ==
    LET c == IF IsTrueInt(sp) /\ sp.val >= 1 /\ sp.val <= MaxConcurrency
             THEN sp ELSE rs
        n == IF IsTrueInt(c) THEN c.val ELSE DefaultConcurrency
    IN  IF n < 1 \/ n > MaxConcurrency THEN DefaultConcurrency ELSE n

\* the number of workers crawl() creates
resolve_concurrency(sp, rs) ==
    LET c == LookedUp(sp, rs)
        n == IF IsTrueInt(c) THEN c.val ELSE DefaultConcurrency
    IN  IF n < 1 \/ n > MaxConcurrency THEN DefaultConcurrency ELSE n

notWorkerCountVars == <<outside, iterVars, middlewares, reversed_mws, running,
                        concurrency, mpc, wpc, wreq, tracing, crawlerVars, trace,
                        dropped, retried, unexpected, handlerVars, signalVars,
                        crawlExitVars, emitVars, ctxVars,
                   chainVars>>

WorkerCountInit ==
    /\ EngineState
    /\ middlewares = << >>
    /\ reversed_mws = << >>
    /\ maxsize = 0
    /\ qmode = "block"
    /\ concurrency = 0
    /\ tracing = FALSE
    /\ h_configs = << >>
    /\ sig_handlers = << >>
    /\ NoChainGiven
    /\ spider_concurrency \in PyValues
    /\ rs_concurrency \in PyValues

\* crawl() reaches the creation of the workers
CreateWorkers ==
    /\ n_workers = 0
    /\ n_workers' = resolve_concurrency(spider_concurrency, rs_concurrency)
    /\ UNCHANGED <<spider_concurrency, rs_concurrency>>
    /\ UNCHANGED notWorkerCountVars

WorkerCountNext == CreateWorkers

WorkerCountSpec == WorkerCountInit /\ [][WorkerCountNext]_vars

InRange(v) == IsTrueInt(v) /\ v.val >= 1 /\ v.val <= MaxConcurrency

NumSenders == 2   \* sender objects
MaxRegs == 2      \* registrations held for the signal at one time

\* None as a sender
NoSender == 0
\* the sender objects; an object is its identity
Senders == 1..NumSenders
\* sender objects may compare equal (__eq__) without being the same object:
\* objects 1 and 2 are equal, 3 and 4 are equal, ...
SenderValue(s) == (s + 1) \div 2

\* the handlers: 1 is a bound method of an object that can be collected,
\* 2 is a function of a module, which lives as long as the program
SigHandlers == {1, 2}
Collectable == {1}
\* the priority a handler is connected with: handler 1 asks for 1, handler 2
\* leaves the default 0
SigPriority(fn) == IF fn = 1 THEN 1 ELSE 0

\* _HandlerRef.resolve() is not None
Live(hr) == ~(hr.weak /\ hr.fn \in sig_dead)

\* _HandlerRef.equals
equals(hr, fn) == Live(hr) /\ hr.fn = fn

\* matches on values that compare equal
matches_sender_by_value(hr, sender) ==
    \/ hr.sender_filter = NoSender
    \/ SenderValue(hr.sender_filter) = SenderValue(sender)

\* _HandlerRef.matches_sender
matches_sender(hr, sender) ==
    \/ hr.sender_filter = NoSender
    \/ hr.sender_filter = sender

\* list.sort(key=priority, reverse=True): stable, so a registration is placed
\* after those of its priority or higher and before the lower ones
RECURSIVE InsertByPriority(_, _)
InsertByPriority(hs, hr) ==
    IF hs = << >> THEN <<hr>>
    ELSE IF Head(hs).priority >= hr.priority
         THEN <<Head(hs)>> \o InsertByPriority(Tail(hs), hr)
         ELSE <<hr>> \o hs

RECURSIVE Keep(_, _)
\* the registrations of hs that are in the set kept, in their order
Keep(hs, kept) ==
    IF hs = << >> THEN << >>
    ELSE IF Head(hs) \in kept
         THEN <<Head(hs)>> \o Keep(Tail(hs), kept)
         ELSE Keep(Tail(hs), kept)

Registrations == {sig_handlers[i] : i \in 1..Len(sig_handlers)}

\* SignalDispatcher(d).connect(signal, fn, weak, priority, sender)
sig_connect(d, fn, weak, priority, sender) ==
    LET filt == IF sender = NoSender THEN d ELSE sender
        hr == [fn |-> fn, weak |-> weak, priority |-> priority, sender_filter |-> filt]
    IN  /\ fn \notin sig_dead
        /\ IF \E r \in Registrations : equals(r, fn) /\ r.sender_filter = filt
           THEN UNCHANGED sig_handlers
           ELSE /\ Len(sig_handlers) < MaxRegs
                /\ sig_handlers' = InsertByPriority(sig_handlers, hr)
        /\ UNCHANGED <<sig_dead, sig_send, sig_todo, sig_delivered>>

\* SignalDispatcher(d).disconnect(signal, fn, sender)
sig_disconnect(d, fn, sender) ==
    LET filt == IF sender = NoSender THEN d ELSE sender
    IN  /\ fn \notin sig_dead
        /\ sig_handlers' =
               Keep(sig_handlers,
                    {r \in Registrations :
                        /\ ~(equals(r, fn) /\ (filt = NoSender \/ r.sender_filter = filt))
                        /\ Live(r)})
        /\ UNCHANGED <<sig_dead, sig_send, sig_todo, sig_delivered>>

\* SignalDispatcher(d).disconnect_all(signal)
sig_disconnect_all(d) ==
    /\ sig_handlers' =
           IF d = NoSender THEN << >>
           ELSE Keep(sig_handlers,
                     {r \in Registrations : r.sender_filter # d \/ ~Live(r)})
    /\ UNCHANGED <<sig_dead, sig_send, sig_todo, sig_delivered>>

\* the last reference to a handler goes away: the registry holds it weakly
\* and no send_async call holds it in its list
sig_collected(fn) ==
    /\ fn \in Collectable \ sig_dead
    /\ \A r \in Registrations : r.fn = fn => r.weak
    /\ \A i \in 1..Len(sig_todo) : sig_todo[i].fn # fn
    /\ sig_dead' = sig_dead \cup {fn}
    /\ UNCHANGED <<sig_handlers, sig_send, sig_todo, sig_delivered>>

\* SignalDispatcher(d).send_async(signal): _collect_handlers
sig_send_async(d) ==
    /\ ~sig_send.on
    /\ LET alive == {r \in Registrations : Live(r)}
           out == {r \in alive : matches_sender(r, d)}
       IN  /\ sig_handlers' = Keep(sig_handlers, alive)
           /\ sig_todo' = Keep(sig_handlers, out)
           /\ sig_send' = IF out = {} THEN NotSending
                          ELSE [on |-> TRUE, sender |-> d]
    /\ sig_delivered' = NoDelivery
    /\ UNCHANGED sig_dead

\* send_async calls the next handler of its list; a concurrent delivery
\* calls the handlers in the same order, each in a task of its own, and
\* differs in the order in which they complete
sig_execute ==
    /\ sig_send.on
    /\ sig_todo # << >>
    /\ sig_delivered' = [fn |-> Head(sig_todo).fn,
                         sender_filter |-> Head(sig_todo).sender_filter,
                         sender |-> sig_send.sender,
                         live |-> Head(sig_todo).fn \notin sig_dead]
    /\ sig_todo' = Tail(sig_todo)
    /\ sig_send' = IF Len(sig_todo) = 1 THEN NotSending ELSE sig_send
    /\ UNCHANGED <<sig_handlers, sig_dead>>

notSignalVars == <<outside, iterVars, middlewares, reversed_mws, running,
                   concurrency, mpc, wpc, wreq, tracing, crawlerVars, trace,
                   dropped, retried, unexpected, handlerVars, workerCountVars,
                   crawlExitVars, emitVars, ctxVars,
                   chainVars>>

SignalInit ==
    /\ EngineState
    /\ middlewares = << >>
    /\ reversed_mws = << >>
    /\ maxsize = 0
    /\ qmode = "block"
    /\ concurrency = 0
    /\ tracing = FALSE
    /\ h_configs = << >>
    /\ NoConcurrencyGiven
    /\ NoChainGiven
    /\ sig_handlers = << >>

\* a handler is connected through a dispatcher bound to a sender, or through
\* the global one with a sender named; a function of a module is connected
\* with the default weak=True
SigConnect ==
    /\ \E d \in Senders \cup {NoSender}, fn \in SigHandlers, weak \in BOOLEAN,
          sender \in Senders \cup {NoSender} :
           /\ sender = NoSender \/ (d = 1 /\ sender = NumSenders)
           /\ fn \notin Collectable => weak
           /\ sig_connect(d, fn, weak, SigPriority(fn), sender)
    /\ UNCHANGED notSignalVars

SigDisconnect ==
    /\ \E d \in Senders \cup {NoSender}, fn \in SigHandlers,
          sender \in Senders \cup {NoSender} :
           /\ sender = NoSender \/ (d = 1 /\ sender = NumSenders)
           /\ sig_disconnect(d, fn, sender)
    /\ UNCHANGED notSignalVars

SigDisconnectAll ==
    /\ \E d \in Senders \cup {NoSender} : sig_disconnect_all(d)
    /\ UNCHANGED notSignalVars

SigCollected ==
    /\ \E fn \in SigHandlers : sig_collected(fn)
    /\ UNCHANGED notSignalVars

SigSendAsync ==
    /\ \E d \in Senders \cup {NoSender} : sig_send_async(d)
    /\ UNCHANGED notSignalVars

SigExecute ==
    /\ sig_execute
    /\ UNCHANGED notSignalVars

SignalNext ==
    \/ SigConnect
    \/ SigDisconnect
    \/ SigDisconnectAll
    \/ SigCollected
    \/ SigSendAsync
    \/ SigExecute

SignalSpec == SignalInit /\ [][SignalNext]_vars

\* C25: a signal sent through the dispatcher bound to sender s is delivered
\* only to live handlers whose registration has no sender filter or has the
\* very object s as its filter
C25_SenderFilter ==
    sig_delivered # NoDelivery =>
        /\ sig_delivered.live
        /\ \/ sig_delivered.sender_filter = NoSender
           \/ sig_delivered.sender_filter = sig_delivered.sender

\* a handler is registered for sender 1 and for sender 2, two objects that
\* compare equal; a signal sent for sender 1 was delivered to completion, and
\* only through the registration for sender 1
C25_Witness ==
    /\ \E r \in Registrations : r.sender_filter = 1
    /\ \E r \in Registrations : r.sender_filter = 2
    /\ ~sig_send.on
    /\ sig_delivered.fn # 0
    /\ sig_delivered.sender = 1
    /\ sig_delivered.sender_filter = 1

\* ---------------------------------------------------------------------------
\* the engine with spider middlewares registered
\* ---------------------------------------------------------------------------

MaxSpiderMw == 1   \* spider middlewares registered with the engine

\* Crawler: a spider middleware is appended to engine._mw_manager.spider
\* before the crawl starts
AddSpiderMiddleware ==
    /\ mpc = "new"
    /\ Len(spider_mws) < MaxSpiderMw
    /\ spider_mws' = Append(spider_mws, Len(spider_mws) + 1)
    /\ UNCHANGED <<cpc, pending_middlewares, c_engine, handler_manager,
                   c_scheduler, spider_signals, c_finalized, crawl_exc,
                   finish_reason, life, retriggers>>
    /\ UNCHANGED <<outside, middlewares, reversed_mws, running, concurrency, mpc,
                   wpc, wreq, tracing, iterVars, standaloneVars, trace, dropped,
                   retried, unexpected>>

\* one worker, every call recorded, spider middlewares registered
ParseNext ==
    \/ AddSpiderMiddleware
    \/ PipelineNext

ParseSpec == PipelineInit /\ [][ParseNext]_vars

\* the calls in which parse, or the iteration of its output, raised while
\* worker w processed its latest request
ParseRaised(w) ==
    {i \in 1..Len(trace[w]) :
        trace[w][i].m = "parse" /\ trace[w][i].out \in {"raise_network", "raise_other"}}

\* C26: when spider.parse, or the iteration of its output, raised for a
\* response and spider middlewares are registered, their
\* process_spider_exception hooks were called by the time the request has
\* finished processing
C26_SpiderExceptionChain ==
    \A w \in Tasks :
        (Between(w) /\ spider_mws # << >>) =>
            \A i \in ParseRaised(w) :
                \E j \in 1..Len(trace[w]) :
                    j > i /\ trace[w][j].m = "process_spider_exception"

\* ---------------------------------------------------------------------------
\* CrawlEngine.crawl: every way out of it
\* ---------------------------------------------------------------------------

\* crawl(): _schedule_start_requests raises an Exception (the spider's
\* start_requests or a spider middleware raised); the except clause sends
\* spider_error. No worker was created yet.
start_requests_raised ==
    /\ mpc = "start"
    /\ ~InAdd(0)
    /\ mpc' = "except"
    /\ spider_errors' = spider_errors + 1
    /\ crawl_raised' = TRUE
    /\ UNCHANGED <<outside, middlewares, reversed_mws, running, concurrency, wpc,
                   wreq, tracing, crawlerVars, iterVars, handlerVars,
                   workerCountVars, signalVars, emitVars, ctxVars, chainVars, trace, dropped,
                   retried, unexpected>>

\* crawl(), except clause: send_async("spider_error") returned; raise, and
\* the finally block runs
crawl_reraise ==
    /\ mpc = "except"
    /\ crawl_finally

\* the task that runs crawl() is cancelled before the workers are created,
\* in _schedule_start_requests or in the except clause, and the finally
\* block runs
crawl_cancelled_early ==
    /\ mpc \in {"start", "except"}
    /\ ~InAdd(0)
    /\ crawl_finally

CrawlExitNext ==
    \/ ShutdownNext
    \/ start_requests_raised
    \/ crawl_reraise
    \/ crawl_cancelled_early

CrawlExitSpec == ShutdownInit /\ [][CrawlExitNext]_vars

\* C27: when a programmer error has crashed a worker (a RETRY whose payload is
\* not a Request), the error is handled by the except clause of crawl(): by
\* the time crawl() is over, spider_error was emitted and crawl() raised
C27_WorkerCrashEndsCrawl ==
    (mpc = "returned" /\ \E w \in Tasks : wpc[w] = "crashed") =>
        (spider_errors > 0 /\ crawl_raised)

\* ---------------------------------------------------------------------------
\* the Scheduler used as its contract asks: task_done() once per request
\* that get() returned
\* ---------------------------------------------------------------------------

\* the number of requests that get() returned to its caller: those handed
\* out, less those set on the future of a consumer that has not resumed yet
ReturnedByGet ==
    Cardinality(dispatched) - Cardinality({t \in Tasks : fut[t] = "result"})

\* a consumer calls task_done() for a request it got and has not marked done
TaskDoneOncePerGet ==
    /\ done < ReturnedByGet
    /\ task_done
    /\ UNCHANGED engineVars

ContractNext ==
    \/ Add
    \/ AddPut
    \/ PutWakeup
    \/ Get
    \/ GetReturn
    \/ GetCancelled
    \/ TaskDoneOncePerGet
    \/ Close

ContractSpec == Init /\ [][ContractNext]_vars

\* C28: after any interleaving of add, get, task_done (once per request
\* obtained) and close, the QueueFull path of add included, pending is not
\* negative, and the finished event is set whenever pending is 0
C28_PendingInvariants ==
    /\ pending >= 0
    /\ pending = 0 => finished

\* a request was handed out and marked done while a second add() was refused
\* with QueueFull: pending is back to 0 and the event is set
C28_Witness ==
    /\ qfull # {}
    /\ done > 0
    /\ pending = 0
    /\ finished

\* worker w ends the processing of its request in this step
EndsRequest(w) == wreq[w] # 0 /\ wreq'[w] # wreq[w]

\* worker w ends in this step because it was cancelled
StopsNow(w) == wpc[w] # "stopped" /\ wpc'[w] = "stopped"

\* task_done() is called once for every request a worker obtained, when the
\* worker is through with it, and at no other time
TaskDoneOncePerRequest ==
    /\ \A w \in Tasks : EndsRequest(w) => (wreq'[w] = 0 /\ done' = done + 1)
    /\ \A w \in Tasks : (StopsNow(w) /\ wreq[w] = 0) => done' = done
    /\ done' # done => \E w \in Tasks : EndsRequest(w)

\* C29: task_done() is called exactly once for every request a worker
\* obtained from get(), whether the processing succeeded, raised or was
\* cancelled, and a worker cancelled in the middle of a request first runs
\* the exception chain with the cancellation; a worker whose get() is
\* cancelled ends without calling task_done()
C29_TaskDoneExactlyOnce ==
    [][/\ TaskDoneOncePerRequest
       /\ \A w \in Tasks :
             (StopsNow(w) /\ wreq[w] # 0) => wpc[w] = "cancelling"]_vars

\* the accounting of C29 alone: one task_done() per request obtained, none
\* after a cancelled get()
C29_Accounting == [][TaskDoneOncePerRequest]_vars

\* C30: when crawl() has returned or raised, running is false, the scheduler
\* is closed and every worker task has ended; and when an Exception left the
\* try block, spider_error was sent exactly once
C30_CrawlExit ==
    mpc = "returned" =>
        /\ ~running
        /\ closed
        /\ \A t \in Tasks : Finished(t)
        /\ crawl_raised => spider_errors = 1

\* _schedule_start_requests raised after a request was scheduled: crawl() sent
\* spider_error once, closed the scheduler and raised
C30_Witness ==
    /\ mpc = "returned"
    /\ crawl_raised
    /\ spider_errors = 1
    /\ scheduled # {}
    /\ closed
    /\ ~running

\* the request that an add() call of this step was given, or 0
Added == IF Len(reqs') = Len(reqs) + 1 THEN Len(reqs') ELSE 0

\* add() admits the request it is given in this step: the scheduler is open
\* and the fingerprint is not in seen
Admits == Added # 0 /\ ~closed /\ reqs'[Added].fp \notin seen

Outstanding ==
    \/ pq # {}
    \/ adds # {}
    \/ \E t \in Tasks : fut[t] = "result"
    \/ \E w \in Tasks : wreq[w] # 0

\* C32: the finished event is set only while pending is 0 and no admitted
\* request is queued or being processed; so in a crawl that raises no
\* exception, where the finally block is reached through join() alone, the
\* scheduler is not closed and no worker is cancelled while a request is
\* queued or being processed
C32_FinishedOnlyWhenIdle ==
    /\ finished => (pending = 0 /\ ~Outstanding)
    /\ (closed \/ \E t \in Tasks : tcancel[t]) => (pending = 0 /\ ~Outstanding)

\* join() returned after two requests were processed: the event is set, the
\* scheduler is closed and the workers, back in get(), are cancelled
C32_Witness ==
    /\ mpc = "gather"
    /\ finished
    /\ closed
    /\ \E t \in Tasks : tcancel[t]
    /\ Cardinality(scheduled) = 2
    /\ done = 2

\* C33: no lost wake-up: on an open scheduler no request is in the queue
\* while a live consumer (its future pending, no cancellation on its way) is
\* suspended in get() as a waiter
C33_NoLostWakeup ==
    (~closed /\ pq # {}) =>
        \A i \in 1..Len(waiters) :
            ~(fut[waiters[i]] = "pending" /\ ~tcancel[waiters[i]])

\* ---------------------------------------------------------------------------
\* the engine on a bounded MemoryPriorityQueue
\* ---------------------------------------------------------------------------

\* a Scheduler built on MemoryPriorityQueue(maxsize=MaxQueue): put suspends
\* on the full queue
BoundedInit ==
    /\ InitCommon
    /\ maxsize = MaxQueue
    /\ qmode = "block"
    /\ \E c \in Tasks : concurrency = c
    /\ tracing = FALSE

BoundedNext ==
    \/ CrawlNext
    \/ PutWakeup

BoundedSpec == BoundedInit /\ [][BoundedNext]_vars

\* an add() is suspended in put() on the full queue
AddSuspended == \E a \in adds : a.stage = "blocked"

\* C34: with a bounded MemoryPriorityQueue, add() never suspends forever:
\* while an add() is suspended in put(), some task of the crawl can still
\* take a step (the start requests beyond maxsize and the adds from parse on
\* a full queue included)
C34_BoundedQueueNoDeadlock == AddSuspended => ENABLED BoundedNext

\* ---------------------------------------------------------------------------
\* request_dropped: the middlewares that emit it, and the engine
\* ---------------------------------------------------------------------------

\* the engine's variables that a middleware's own emission leaves alone
notEmitVars == <<middlewares, reversed_mws, running, concurrency, mpc, tracing,
                 crawlerVars, iterVars, handlerVars, workerCountVars, signalVars,
                 crawlExitVars, ctxVars, chainVars, trace, unexpected>>

\* RobotsTxtMiddleware.process_request for a URL that robots.txt disallows:
\* it sends request_dropped(request, exception=None) through spider.signals
\* and returns DROP; _process_request hands the DROP to
\* _handle_retry_or_drop, which sends request_dropped(request, None)
robots_blocked(w) ==
    /\ wpc[w] = "request"
    /\ ~tcancel[w]
    /\ middlewares # << >>
    /\ mw_dropped' = mw_dropped \cup {wreq[w]}
    /\ drop_request(w, "None")
    /\ UNCHANGED notEmitVars

\* HttpErrorMiddleware.process_spider_input for a response whose status is
\* not allowed: it sends request_dropped(request, exception=None) through
\* spider.signals and returns IgnoreResponse; _process_parse_results hands the
\* exception to _handle_exception, which sends request_dropped(request, exc)
\* because the exception is not network-class. The response chain before it
\* let the response through.
http_error_filtered(w) ==
    /\ wpc[w] = "response"
    /\ ~tcancel[w]
    /\ mw_dropped' = mw_dropped \cup {wreq[w]}
    /\ drop_request(w, "other")
    /\ UNCHANGED notEmitVars

DropNext ==
    \/ CrawlNext
    \/ \E w \in Tasks : robots_blocked(w)
    \/ \E w \in Tasks : http_error_filtered(w)

DropSpec == CrawlInit /\ [][DropNext]_vars

\* the number of request_dropped signals emitted for request r
DropsEmitted(r) ==
    Cardinality({e \in dropped : e[1] = r}) + (IF r \in mw_dropped THEN 1 ELSE 0)

\* C35: for each request a worker took from the scheduler, request_dropped
\* is emitted at most once, whichever middleware or engine path drops it
C35_DroppedAtMostOnce == \A r \in 1..Len(reqs) : DropsEmitted(r) <= 1

\* the requests in the queue, those inside an add() that has not returned
\* counted as queued
Queued == Cardinality(pq) + Cardinality(adds)

\* the requests delivered to consumers (returned by get() or set on a
\* waiter's future) for which task_done() has not been called
Delivered == Cardinality(dispatched) - done

\* C36: at every point pending is the number of requests in the queue
\* (a request inside an unfinished add() counted as queued) plus the number
\* of requests delivered to consumers and not yet marked done
C36_PendingAccounting == pending = Queued + Delivered

\* the places in the log at which an instance of handler name was created
Created(name) == {i \in HandlerEvents("create") : h_log[i].name = name}

\* C37: for each handler name the manager creates at most one instance, also
\* when several fetch() calls for that name are under way before the first
\* instance is cached; hence close() closes every instance that was created
\* before it
C37_OneInstancePerName ==
    /\ \A name \in HandlerNames : Cardinality(Created(name)) <= 1
    /\ h_pc = "closed" =>
          \A name \in HandlerNames :
              Cardinality({i \in Created(name) : i < ClosedAt})
                  <= Cardinality({i \in HandlerEvents("close") : h_log[i].name = name})

\* C38: in one Crawler.crawl(), spider.close_spider is called and
\* spider_closed is emitted only if spider_opened was emitted (and so
\* spider.open_spider had completed) earlier in that crawl
C38_CloseOnlyAfterOpen ==
    cpc \in {"cleanup", "returned", "raised"} =>
        \A i \in At("spider.close_spider") \cup At("spider_closed") :
            \E j \in At("spider_opened") : j < i

\* ---------------------------------------------------------------------------
\* the Scheduler as an async context manager
\* ---------------------------------------------------------------------------

notCtxVars == <<middlewares, reversed_mws, running, concurrency, mpc, wpc, wreq,
                tracing, crawlerVars, iterVars, trace, dropped, retried,
                unexpected, handlerVars, workerCountVars, signalVars,
                crawlExitVars, emitVars, chainVars>>

\* Scheduler.__aexit__: await self.close(), up to the wait in join()
sched_aexit ==
    /\ ctx = "entered"
    /\ close
    /\ ctx' = "join"
    /\ UNCHANGED notCtxVars

\* Scheduler.__aexit__: await self.join() returns once the finished event is
\* set, and the context is left
sched_join ==
    /\ ctx = "join"
    /\ finished
    /\ ctx' = "exited"
    /\ UNCHANGED <<outside, notCtxVars>>

ExitNext ==
    \/ Add
    \/ AddPut
    \/ PutWakeup
    \/ Get
    \/ GetReturn
    \/ GetCancelled
    \/ TaskDoneOncePerGet
    \/ sched_aexit
    \/ sched_join

ExitSpec == Init /\ [][ExitNext]_vars

\* the event loop resumes a coroutine that can go on: the exiting task when
\* the event is set, an add() after its emission or when the queue has room,
\* a get() whose future is done. Whether a consumer calls get() or
\* task_done() is up to the consumer.
ExitFairSpec ==
    /\ ExitSpec
    /\ WF_vars(sched_join)
    /\ WF_vars(AddPut)
    /\ WF_vars(PutWakeup)
    /\ WF_vars(GetReturn)
    /\ WF_vars(GetCancelled)

\* C39: leaving the Scheduler's async context (close() followed by join())
\* always terminates, also when requests were added and never taken by
\* get(), or taken and not yet marked done, at the time of the exit
C39_AExitTerminates == (ctx = "join") ~> (ctx = "exited")

\* ---------------------------------------------------------------------------
\* the downloader chains: CrawlEngine._run_middleware_chain and
\* MiddlewareManager side by side
\* ---------------------------------------------------------------------------

\* what a hook returns: a MiddlewareResult with one of the four actions
\* (KEEP with a Page, RETRY with a Request)
ChainResults == {"CONTINUE", "KEEP", "RETRY", "DROP"}

\* what each phase hands to its first hook besides request and spider
InitialPayload(method_name) ==
    CASE method_name = "process_request" -> "None"
      [] method_name = "process_response" -> "page"
      [] method_name = "process_exception" -> "network"

\* the chain that the engine passes to _run_middleware_chain
EngineChain(method_name) ==
    IF method_name = "process_request" THEN middlewares ELSE reversed_mws

\* MiddlewareManager.process_request: registration order, the first result
\* that is not CONTINUE is returned
RECURSIVE process_request(_, _)
process_request(chain, calls) ==
    IF chain = << >>
    THEN [action |-> "CONTINUE", exc |-> "None", calls |-> calls]
    ELSE LET out == chain_plan[Head(chain)]
             made == Append(calls, Call(0, "process_request", Head(chain), "None", out))
         IN  IF out = "CONTINUE"
             THEN process_request(Tail(chain), made)
             ELSE [action |-> out, exc |-> "None", calls |-> made]

\* MiddlewareManager.process_response: reverse order, KEEP replaces the
\* current page and the loop goes on, RETRY and DROP are returned, and at the
\* end keep(current)
RECURSIVE process_response(_, _, _)
process_response(chain, current, calls) ==
    IF chain = << >>
    THEN [action |-> "KEEP", exc |-> "None", calls |-> calls]
    ELSE LET out == chain_plan[Head(chain)]
             made == Append(calls, Call(0, "process_response", Head(chain), current, out))
         IN  IF out \in {"CONTINUE", "KEEP"}
             THEN process_response(Tail(chain), "page", made)
             ELSE [action |-> out, exc |-> "None", calls |-> made]

\* MiddlewareManager.process_exception: reverse order, the first result that
\* is not CONTINUE is returned
RECURSIVE process_exception(_, _, _)
process_exception(chain, exception, calls) ==
    IF chain = << >>
    THEN [action |-> "CONTINUE", exc |-> "None", calls |-> calls]
    ELSE LET out == chain_plan[Head(chain)]
             made == Append(calls, Call(0, "process_exception", Head(chain), exception, out))
         IN  IF out = "CONTINUE"
             THEN process_exception(Tail(chain), exception, made)
             ELSE [action |-> out, exc |-> "None", calls |-> made]

\* the MiddlewareManager method of the phase, on self.downloader
ManagerRun(method_name) ==
    CASE method_name = "process_request" -> process_request(middlewares, << >>)
      [] method_name = "process_response" ->
            process_response(Reverse(middlewares), "page", << >>)
      [] method_name = "process_exception" ->
            process_exception(Reverse(middlewares), "network", << >>)

\* the run of _run_middleware_chain in which every hook returns what the
\* plan says
EngineRun(method_name) ==
    CHOOSE res \in _run_middleware_chain(method_name, 0, EngineChain(method_name),
                                         InitialPayload(method_name), ChainResults,
                                         << >>) :
        \A i \in 1..Len(res.calls) : res.calls[i].out = chain_plan[res.calls[i].mw]

\* up to NumMw downloader middlewares, a phase, and a result for every hook
ChainInit ==
    /\ EngineState
    /\ \E n \in 0..NumMw :
          /\ middlewares = [i \in 1..n |-> i]
          /\ chain_plan \in [1..n -> ChainResults]
    /\ reversed_mws = ReversedMws(middlewares)
    /\ chain_method \in HookNames
    /\ maxsize = 0
    /\ qmode = "block"
    /\ concurrency = 0
    /\ tracing = TRUE
    /\ h_configs = << >>
    /\ NoConcurrencyGiven
    /\ sig_handlers = << >>

notChainVars == <<outside, iterVars, middlewares, reversed_mws, running,
                  concurrency, mpc, wpc, wreq, tracing, crawlerVars, trace,
                  dropped, retried, unexpected, handlerVars, workerCountVars,
                  signalVars, crawlExitVars, emitVars, ctxVars>>

\* the engine runs the chain of the phase
run_engine_chain ==
    /\ chain_method # ""
    /\ eng_run = NotRun
    /\ eng_run' = EngineRun(chain_method)
    /\ UNCHANGED <<chain_method, chain_plan, mgr_run, notChainVars>>

\* the MiddlewareManager method of the phase is called
run_manager_chain ==
    /\ chain_method # ""
    /\ mgr_run = NotRun
    /\ mgr_run' = ManagerRun(chain_method)
    /\ UNCHANGED <<chain_method, chain_plan, eng_run, notChainVars>>

ChainNext ==
    \/ run_engine_chain
    \/ run_manager_chain

ChainSpec == ChainInit /\ [][ChainNext]_vars

\* C40: for every list of downloader middlewares and every combination of
\* hook results (CONTINUE, KEEP, RETRY, DROP), in each of the three phases
\* the engine's chain runner calls the same hooks in the same order with the
\* same arguments as the MiddlewareManager method of that phase, and ends
\* with the same action (whose payload is the page for KEEP, the request for
\* RETRY)
C40_ChainRunnerMatchesManager ==
    (eng_run # NotRun /\ mgr_run # NotRun) =>
        /\ eng_run.action = mgr_run.action
        /\ eng_run.calls = mgr_run.calls

====
